---- MODULE Spec2Model ----
(***************************************************************************)
(* Persistence / merge subsystem of the customer and finance tools:        *)
(* backend/agent_logic/tools.py (write path with retry and local fallback, *)
(* customer identity resolution and merge, category normalisation) and the *)
(* read side of backend/main.py.                                           *)
(*                                                                         *)
(* Python values are tagged records: None, Str(<<chars>>), Num(n),         *)
(* List(<<items>>).  A Python str is the sequence of its characters, so    *)
(* that lower() and strip() are computed, not assumed.                     *)
(***************************************************************************)
EXTENDS Integers, Sequences, FiniteSets, TLC

(* ------------------------------------------------------------------ *)
(* Bounds of the model                                                 *)
(* ------------------------------------------------------------------ *)

\* number of write requests accepted in one run of Spec (the store may fail)
MaxIds == 2

\* number of write requests accepted in one run of SpecReachable (no failures)
MaxIdsReachable == 3

(* ------------------------------------------------------------------ *)
(* Python values                                                       *)
(* ------------------------------------------------------------------ *)

None == [t |-> "None"]
Str(s) == [t |-> "str", v |-> s]
Num(n) == [t |-> "int", v |-> n]
List(l) == [t |-> "list", v |-> l]

IsNone(x) == x.t = "None"

\* Python truthiness: None, "", 0 and [] are falsy
Truthy(x) ==
    CASE x.t = "None" -> FALSE
      [] x.t = "str"  -> x.v # << >>
      [] x.t = "int"  -> x.v # 0
      [] x.t = "list" -> x.v # << >>
      [] OTHER        -> TRUE

\* `x or default`
OrElse(x, d) == IF Truthy(x) THEN x ELSE d

\* dict.get(key): None when the key is absent
Get(d, k) == IF k \in DOMAIN d THEN d[k] ELSE None

UpperAlpha ==
    << "A", "B", "C", "D", "E", "F", "G", "H", "I", "J", "K", "L", "M",
       "N", "O", "P", "Q", "R", "S", "T", "U", "V", "W", "X", "Y", "Z" >>

LowerAlpha ==
    << "a", "b", "c", "d", "e", "f", "g", "h", "i", "j", "k", "l", "m",
       "n", "o", "p", "q", "r", "s", "t", "u", "v", "w", "x", "y", "z" >>

LowerChar(c) ==
    IF \E i \in 1..Len(UpperAlpha) : UpperAlpha[i] = c
    THEN LowerAlpha[CHOOSE i \in 1..Len(UpperAlpha) : UpperAlpha[i] = c]
    ELSE c

\* str.lower()
Lower(s) == [i \in 1..Len(s) |-> LowerChar(s[i])]

Whitespace == { " ", "\t", "\n", "\r" }

RECURSIVE LStrip(_)
LStrip(s) ==
    IF s # << >> /\ Head(s) \in Whitespace THEN LStrip(Tail(s)) ELSE s

RECURSIVE RStrip(_)
RStrip(s) ==
    IF s # << >> /\ s[Len(s)] \in Whitespace
    THEN RStrip(SubSeq(s, 1, Len(s) - 1))
    ELSE s

\* str.strip()
Strip(s) == RStrip(LStrip(s))

\* the elements of a sequence
Range(s) == { s[i] : i \in 1..Len(s) }

\* the sequences that list every element of the finite set S exactly once
RECURSIVE Orderings(_)
Orderings(S) ==
    IF S = {} THEN { << >> }
    ELSE UNION { { <<x>> \o r : r \in Orderings(S \ {x}) } : x \in S }

(* ------------------------------------------------------------------ *)
(* Category normaliser                                                 *)
(* ------------------------------------------------------------------ *)

sProspective == << "P", "r", "o", "s", "p", "e", "c", "t", "i", "v", "e" >>
sCurrent == << "C", "u", "r", "r", "e", "n", "t" >>
sInactive == << "I", "n", "a", "c", "t", "i", "v", "e" >>
sActive == << "a", "c", "t", "i", "v", "e" >>

VALID_CUSTOMER_CATEGORIES == << sProspective, sCurrent, sInactive >>

\* the literal category_map of _normalize_category, as (key, value) pairs
category_map ==
    { << Lower(sProspective), sProspective >>,
      << Lower(sCurrent), sCurrent >>,
      << sActive, sCurrent >>,
      << Lower(sInactive), sInactive >> }

_normalize_category_skip_map(category) ==
    IF ~Truthy(category) THEN None
    ELSE LET category_lower == Lower(Strip(category.v))
         IN  IF \E i \in 1..Len(VALID_CUSTOMER_CATEGORIES) :
                    category_lower = Lower(VALID_CUSTOMER_CATEGORIES[i])
             THEN Str(VALID_CUSTOMER_CATEGORIES[
                        CHOOSE i \in 1..Len(VALID_CUSTOMER_CATEGORIES) :
                            category_lower = Lower(VALID_CUSTOMER_CATEGORIES[i])])
             ELSE None

_normalize_category_passthrough(category) ==
    IF ~Truthy(category) THEN None
    ELSE LET category_lower == Lower(Strip(category.v))
         IN  IF \E e \in category_map : e[1] = category_lower
             THEN Str((CHOOSE e \in category_map : e[1] = category_lower)[2])
             ELSE category

_normalize_category_key(category) ==
    IF ~Truthy(category) THEN None
    ELSE LET category_lower == Lower(Strip(category.v))
         IN  IF \E e \in category_map : e[1] = category_lower
             THEN Str(category_lower)
             ELSE None

_normalize_category(category) ==
    IF ~Truthy(category) THEN None
    ELSE LET category_lower == Lower(Strip(category.v))
         IN  IF \E e \in category_map : e[1] = category_lower
             THEN Str((CHOOSE e \in category_map : e[1] = category_lower)[2])
             ELSE IF \E i \in 1..Len(VALID_CUSTOMER_CATEGORIES) :
                        category_lower = Lower(VALID_CUSTOMER_CATEGORIES[i])
             THEN Str(VALID_CUSTOMER_CATEGORIES[
                        CHOOSE i \in 1..Len(VALID_CUSTOMER_CATEGORIES) :
                            category_lower = Lower(VALID_CUSTOMER_CATEGORIES[i])])
             ELSE None

(* ------------------------------------------------------------------ *)
(* Customer records                                                    *)
(* ------------------------------------------------------------------ *)

\* datetime.isoformat() of the clock reading n, and the datetime object itself
Ts(n) == [t |-> "ts", ts |-> n]
Datetime(n) == [t |-> "datetime", ts |-> n]

\* the keys of customer_data, as enter_customer_info builds it
CustomerKeys ==
    { "name", "email", "phone", "rewardPoints", "prevOrders", "birthday",
      "interests", "address", "company", "category", "notes",
      "paymentMethod", "paymentLast4" }

\* an order sub-record of prevOrders
Order(id, number, amount) ==
    [order_id |-> id, order_number |-> number, amount |-> amount]

OrderIds_id_only(order) ==
    IF Truthy(Get(order, "order_id")) THEN { order.order_id } ELSE {}

\* the identifiers an order contributes to existing_ids
OrderIds(order) ==
    (IF Truthy(Get(order, "order_id")) THEN { order.order_id } ELSE {})
    \cup (IF Truthy(Get(order, "order_number")) THEN { order.order_number } ELSE {})

MergeOrders_append_all(merged_orders, existing_ids, new_orders) ==
    merged_orders \o new_orders

\* the loop over new_orders of _merge_customer_data
RECURSIVE MergeOrders(_, _, _)
MergeOrders(merged_orders, existing_ids, new_orders) ==
    IF new_orders = << >> THEN merged_orders
    ELSE LET order == Head(new_orders)
             order_id == OrElse(Get(order, "order_id"), Get(order, "order_number"))
         IN  IF Truthy(order_id) /\ order_id \notin existing_ids
             THEN MergeOrders(Append(merged_orders, order),
                              existing_ids \cup OrderIds(order), Tail(new_orders))
             ELSE IF ~Truthy(order_id)
             THEN MergeOrders(Append(merged_orders, order), existing_ids,
                              Tail(new_orders))
             ELSE MergeOrders(merged_orders, existing_ids, Tail(new_orders))

MergedInterests_new_only(existing, new) ==
    Range(OrElse(Get(new, "interests"), List(<< >>)).v)

\* the elements of set(existing.interests or []).union(set(new.interests or []))
MergedInterests(existing, new) ==
    Range(OrElse(Get(existing, "interests"), List(<< >>)).v)
    \cup Range(OrElse(Get(new, "interests"), List(<< >>)).v)

\* one key of the loop `for key, new_value in new.items()`; interests_order is
\* the order in which list(set) enumerates the merged interests
MergedValue(existing, new, key, interests_order) ==
    LET new_value == new[key]
        old == Get(existing, key)
    IN  CASE key = "timestamp" ->
                IF Truthy(old) /\ Truthy(new_value)
                THEN IF old.ts < new_value.ts THEN Ts(old.ts)
                     ELSE Datetime(new_value.ts)
                ELSE IF Truthy(new_value) THEN new_value ELSE old
          [] key = "rewardPoints" ->
                Num(OrElse(old, Num(0)).v + OrElse(new_value, Num(0)).v)
          [] key = "prevOrders" ->
                LET existing_orders == OrElse(old, List(<< >>)).v
                    new_orders == OrElse(new_value, List(<< >>)).v
                    existing_ids ==
                        UNION { OrderIds(existing_orders[i]) :
                                    i \in 1..Len(existing_orders) }
                    merged_orders ==
                        MergeOrders(existing_orders, existing_ids, new_orders)
                IN  IF merged_orders # << >> THEN List(merged_orders) ELSE None
          [] key = "interests" ->
                IF interests_order # << >> THEN List(interests_order) ELSE None
          [] key = "category" ->
                IF ~IsNone(new_value) THEN _normalize_category(new_value)
                ELSE IF ~IsNone(old) THEN _normalize_category(old)
                ELSE old
          [] OTHER ->
                IF IsNone(old) /\ ~IsNone(new_value) THEN new_value
                ELSE IF ~IsNone(new_value) /\ old # new_value THEN new_value
                ELSE old

_merge_customer_data_keep_points(existing, new, interests_order) ==
    [ key \in DOMAIN existing \cup DOMAIN new |->
        IF key \in DOMAIN new /\ (key # "rewardPoints" \/ key \notin DOMAIN existing)
        THEN MergedValue(existing, new, key, interests_order)
        ELSE existing[key] ]

_merge_customer_data_overwrite(existing, new, interests_order) ==
    [ key \in DOMAIN existing \cup DOMAIN new |->
        IF key \in DOMAIN new
        THEN IF key \in { "timestamp", "rewardPoints", "prevOrders", "interests",
                          "category" }
             THEN MergedValue(existing, new, key, interests_order)
             ELSE new[key]
        ELSE existing[key] ]

_merge_customer_data_keep_category(existing, new, interests_order) ==
    [ key \in DOMAIN existing \cup DOMAIN new |->
        IF key \in DOMAIN new /\ (key # "category" \/ ~IsNone(new[key]))
        THEN MergedValue(existing, new, key, interests_order)
        ELSE existing[key] ]

_merge_customer_data_restamp(existing, new, interests_order) ==
    [ key \in (DOMAIN existing \cup DOMAIN new) \ { "timestamp" } |->
        IF key \in DOMAIN new
        THEN MergedValue(existing, new, key, interests_order)
        ELSE existing[key] ]

_merge_customer_data(existing, new, interests_order) ==
    [ key \in DOMAIN existing \cup DOMAIN new |->
        IF key \in DOMAIN new
        THEN MergedValue(existing, new, key, interests_order)
        ELSE existing[key] ]

\* a stored email or name after .lower().strip()
Normalized(x) == Strip(Lower(x.v))

Matches_any_name(customer_data, name, email) ==
    \/ /\ Truthy(email) /\ Truthy(Get(customer_data, "email"))
       /\ Normalized(email) = Normalized(customer_data.email)
    \/ /\ Truthy(name) /\ Truthy(Get(customer_data, "name"))
       /\ Normalized(name) = Normalized(customer_data.name)

\* the test _find_existing_customer applies to one downloaded blob
Matches(customer_data, name, email) ==
    \/ /\ Truthy(email) /\ Truthy(Get(customer_data, "email"))
       /\ Normalized(email) = Normalized(customer_data.email)
    \/ /\ Truthy(name) /\ Truthy(Get(customer_data, "name"))
       /\ Normalized(name) = Normalized(customer_data.name)
       /\ (~Truthy(email) \/ ~Truthy(Get(customer_data, "email")))

(* ------------------------------------------------------------------ *)
(* State                                                               *)
(* ------------------------------------------------------------------ *)

\* the request handlers that may be running
Procs == { 1, 2 }

VARIABLES
    bucket,     \* whether the module-level GCS bucket handle was initialised
    gcs,        \* remote store: collection -> blobs [id, data] in listing order
    disk,       \* local fallback files under ./storage_fallback/<folder>/<id>.json
    next_id,    \* number of uuid4 identifiers drawn so far
    clock,      \* last reading of datetime.now()
    proc,       \* per handler: operation, position, locals and result
    origin      \* history: customer blob id -> id of the first blob of its record

vars == << bucket, gcs, disk, next_id, clock, proc, origin >>

BUCKET_NAME == "aiatl2025"

Folders == { "customer_info", "financial_data", "uploaded_files" }

\* "gs://<bucket>/<folder>/<id>.json" and "file://<cwd>/storage_fallback/<folder>/<id>.json"
GcsPath(folder, id) ==
    Str(<< "gs://", BUCKET_NAME, "/", folder, "/", id, ".json" >>)
LocalUri_gs_scheme(folder, id) ==
    Str(<< "gs://", "cwd", "/storage_fallback/", folder, "/", id, ".json" >>)
LocalUri(folder, id) ==
    Str(<< "file://", "cwd", "/storage_fallback/", folder, "/", id, ".json" >>)

File(folder, id, data) == [folder |-> folder, id |-> id, data |-> data]

InsertAt_over_first(s, i, x) ==
    IF s = << >> THEN << x >> ELSE << x >> \o Tail(s)

\* a listing with the new blob x at position i: the store lists by name, and
\* the name is a fresh uuid
InsertAt(s, i, x) == SubSeq(s, 1, i) \o << x >> \o SubSeq(s, i + 1, Len(s))

RECURSIVE SelectIds(_, _)
SelectIds(s, id) ==
    IF s = << >> THEN << >>
    ELSE IF Head(s).id = id THEN SelectIds(Tail(s), id)
    ELSE << Head(s) >> \o SelectIds(Tail(s), id)

Without_keep(s, id) == s

\* blob.delete(): the listing without the blob named id
Without(s, id) == SelectIds(s, id)

HasBlob(folder, id) == \E i \in 1..Len(gcs[folder]) : gcs[folder][i].id = id

BlobData(folder, id) ==
    gcs[folder][CHOOSE i \in 1..Len(gcs[folder]) : gcs[folder][i].id = id].data

Idle ==
    [ op |-> "idle", pc |-> "idle", args |-> None, data |-> None,
      scan |-> << >>, blob_name |-> 0, is_update |-> FALSE,
      folder |-> "", entry_id |-> 0, attempt |-> 0,
      ret |-> None, result |-> None,
      \* history: remote attempts, local writes and storage operations of this
      \* request, and the request this handler served just before it
      uploads |-> 0, local_writes |-> 0, ops |-> 0, prev |-> None,
      \* locals of update_all_customers_category and clear_storage
      normalized_category |-> None, folders |-> << >>, count |-> 0,
      \* history: a storage operation of this request raised; another
      \* handler was running when this request was called
      failed |-> FALSE, overlap |-> FALSE,
      \* the warnings and errors this request has logged; whether its
      \* old_blob.delete() succeeded; the last and the total time.sleep of its put
      log |-> {}, deleted |-> FALSE, sleep_time |-> 0, slept |-> 0 ]

\* what is remembered of a request once the handler serves the next one
Summary(l) == [ op |-> l.op, args |-> l.args, data |-> l.data, result |-> l.result ]

Init ==
    /\ bucket \in BOOLEAN
    /\ gcs = [ f \in Folders |-> << >> ]
    /\ disk = {}
    /\ next_id = 0
    /\ clock = 0
    /\ proc = [ p \in Procs |-> Idle ]
    /\ origin = << >>

(* ------------------------------------------------------------------ *)
(* Blob store adapter: _upload_json_to_gcs                             *)
(* ------------------------------------------------------------------ *)

\* logger.warning and logger.error; attempt is the number in the message
\* a warning recorded at INFO level
Warning_as_info(message, attempt) ==
    [ level |-> "INFO", message |-> message, attempt |-> attempt ]

Warning(message, attempt) ==
    [ level |-> "WARNING", message |-> message, attempt |-> attempt ]
Error(message) == [ level |-> "ERROR", message |-> message, attempt |-> 0 ]

RECURSIVE Pow2(_)
Pow2(n) == IF n = 0 THEN 1 ELSE 2 * Pow2(n - 1)

\* backoff_base = 0.5 seconds, in tenths of a second
backoff_base == 5

sleep_time_constant(attempt) == backoff_base

\* sleep_time after the attempt-th failed upload, in tenths of a second
sleep_time(attempt) == backoff_base * Pow2(attempt - 1)

max_retries_plus_one == 3 + 1

max_retries == 3

Failed_never(gcs_path) == FALSE

\* `if not gcs_path:` in enter_customer_info and enter_financial_data
Failed(gcs_path) == ~Truthy(gcs_path)

\* what the caller returns once _upload_json_to_gcs has returned ret
Outcome(l, ret) ==
    IF l.op = "enter_customer_info"
    THEN IF Failed(ret)
         THEN [ status |-> "error", error_message |-> "storage", data |-> l.data ]
         ELSE [ status |-> "success", data |-> l.data, gcs_path |-> ret,
                entered_fields |->
                    { k \in DOMAIN l.data :
                        ~IsNone(l.data[k]) /\ l.data[k] # Str(<< >>)
                        /\ k # "timestamp" },
                missing_fields |->
                    { k \in DOMAIN l.data :
                        IsNone(l.data[k])
                        \/ (l.data[k] = Str(<< >>) /\ k # "timestamp") },
                is_update |-> l.is_update ]
    ELSE IF l.op = "extract_data_from_file"
    THEN \* the value of _upload_json_to_gcs is not looked at
         [ status |-> "success", data_type |-> l.args.data_type,
           confidence |-> l.args.confidence ]
    ELSE IF Failed(ret)
         THEN [ status |-> "error", error_message |-> "storage", data |-> l.args ]
         ELSE [ status |-> "success", data |-> l.args, gcs_path |-> ret,
                entered_fields |->
                    { k \in DOMAIN l.args :
                        ~IsNone(l.args[k]) /\ l.args[k] # Str(<< >>) },
                missing_fields |->
                    { k \in DOMAIN l.args :
                        IsNone(l.args[k]) \/ l.args[k] = Str(<< >>) } ]

\* history: the record a customer blob written by l continues
Lineage(l) ==
    IF l.folder = "customer_info"
    THEN origin @@ (l.entry_id :> IF l.is_update THEN origin[l.blob_name]
                                   ELSE l.entry_id)
    ELSE origin
\* a put that retries the upload until it succeeds
PutRemote_forever(p, outcomes) ==
    LET l == proc[p] IN
    /\ l.pc = "put_remote"
    /\ \E ok \in outcomes :
        IF ok
        THEN /\ \E pos \in 0..Len(Without(gcs[l.folder], l.entry_id)) :
                    gcs' = [ gcs EXCEPT ![l.folder] =
                               InsertAt(Without(gcs[l.folder], l.entry_id), pos,
                                        [ id |-> l.entry_id, data |-> l.data ]) ]
             /\ proc' = [ proc EXCEPT ![p] =
                            [ l EXCEPT !.pc = "done",
                                       !.uploads = l.uploads + 1,
                                       !.ops = l.ops + 1,
                                       !.ret = GcsPath(l.folder, l.entry_id),
                                       !.result =
                                           Outcome(l, GcsPath(l.folder, l.entry_id)) ] ]
             /\ origin' = Lineage(l)
        ELSE /\ proc' = [ proc EXCEPT ![p] =
                            [ l EXCEPT !.attempt = (l.attempt + 1) % 3 ] ]
             /\ UNCHANGED << gcs, origin >>
    /\ UNCHANGED << bucket, disk, next_id, clock >>


\* one pass of `while attempt < max_retries`: blob.upload_from_string
PutRemote(p, outcomes) ==
    LET l == proc[p] IN
    /\ l.pc = "put_remote"
    /\ \E ok \in outcomes :
        IF ok
        THEN /\ \E pos \in 0..Len(Without(gcs[l.folder], l.entry_id)) :
                    gcs' = [ gcs EXCEPT ![l.folder] =
                               InsertAt(Without(gcs[l.folder], l.entry_id), pos,
                                        [ id |-> l.entry_id, data |-> l.data ]) ]
             /\ proc' = [ proc EXCEPT ![p] =
                            [ l EXCEPT !.pc = "done",
                                       !.uploads = l.uploads + 1,
                                       !.ops = l.ops + 1,
                                       !.ret = GcsPath(l.folder, l.entry_id),
                                       !.result =
                                           Outcome(l, GcsPath(l.folder, l.entry_id)) ] ]
             /\ origin' = Lineage(l)
        ELSE /\ proc' = [ proc EXCEPT ![p] =
                            [ l EXCEPT !.attempt = l.attempt + 1,
                                       !.uploads = l.uploads + 1,
                                       !.ops = l.ops + 1,
                                       !.log =
                                           l.log
                                           \cup { Warning("Attempt failed to upload to GCS",
                                                          l.attempt + 1) }
                                           \cup IF l.attempt + 1 < max_retries THEN {}
                                                ELSE { Error("All attempts to upload to GCS failed. Writing to local fallback.") },
                                       !.sleep_time = sleep_time(l.attempt + 1),
                                       !.slept = l.slept + sleep_time(l.attempt + 1),
                                       !.pc = IF l.attempt + 1 < max_retries
                                              THEN "put_remote" ELSE "put_local" ] ]
             /\ UNCHANGED << gcs, origin >>
    /\ UNCHANGED << bucket, disk, next_id, clock >>

LocalResult_always_uri(ok, folder, id) == LocalUri(folder, id)

\* what the fallback branch returns: the file URI, or None when the write raised
LocalResult(ok, folder, id) == IF ok THEN LocalUri(folder, id) ELSE None

\* the local fallback write (bucket not initialised, or all retries failed)
PutLocal(p, outcomes) ==
    LET k == proc[p]
        l == [ k EXCEPT !.log =
                 IF bucket THEN k.log
                 ELSE k.log \cup { Warning("GCS bucket not initialized. Writing to local fallback.", 0) } ]
    IN
    /\ l.pc = "put_local"
    /\ \E ok \in outcomes :
        IF ok
        THEN /\ disk' = { f \in disk : ~(f.folder = l.folder /\ f.id = l.entry_id) }
                            \cup { File(l.folder, l.entry_id, l.data) }
             /\ proc' = [ proc EXCEPT ![p] =
                            [ l EXCEPT !.pc = "done",
                                       !.local_writes = l.local_writes + 1,
                                       !.ops = l.ops + 1,
                                       !.ret = LocalResult(TRUE, l.folder, l.entry_id),
                                       !.result =
                                           Outcome(l, LocalResult(TRUE, l.folder,
                                                                  l.entry_id)) ] ]
             /\ origin' = Lineage(l)
        ELSE /\ proc' = [ proc EXCEPT ![p] =
                            [ l EXCEPT !.pc = "done",
                                       !.local_writes = l.local_writes + 1,
                                       !.ops = l.ops + 1,
                                       !.log = l.log \cup { Error("Failed to write fallback file to disk") },
                                       !.ret = LocalResult(FALSE, l.folder, l.entry_id),
                                       !.result =
                                           Outcome(l, LocalResult(FALSE, l.folder,
                                                                  l.entry_id)) ] ]
             /\ UNCHANGED << disk, origin >>
    /\ UNCHANGED << bucket, gcs, next_id, clock >>

(* ------------------------------------------------------------------ *)
(* enter_customer_info                                                 *)
(* ------------------------------------------------------------------ *)

HasData_always(customer_data) == TRUE

\* `any(value is not None and value != "" for value in customer_data.values())`
HasData(customer_data) ==
    \E k \in DOMAIN customer_data :
        ~IsNone(customer_data[k]) /\ customer_data[k] # Str(<< >>)

StartPut_in_place(p, l) ==
    LET present == "timestamp" \in DOMAIN l.data
        stamped == IF present THEN l.data
                   ELSE l.data @@ ("timestamp" :> Ts(clock + 1))
    IN  /\ clock' = IF present THEN clock ELSE clock + 1
        /\ next_id' = next_id + 1
        /\ proc' = [ proc EXCEPT ![p] =
                       [ l EXCEPT !.data = stamped,
                                  !.folder = "customer_info",
                                  !.entry_id = IF l.is_update THEN l.blob_name
                                               ELSE next_id + 1,
                                  !.attempt = 0,
                                  !.pc = IF bucket THEN "put_remote"
                                         ELSE "put_local" ] ]

\* from "Add timestamp if not present" to the call of _upload_json_to_gcs
StartPut(p, l) ==
    LET present == "timestamp" \in DOMAIN l.data
        stamped == IF present THEN l.data
                   ELSE l.data @@ ("timestamp" :> Ts(clock + 1))
    IN  /\ clock' = IF present THEN clock ELSE clock + 1
        /\ next_id' = next_id + 1
        /\ proc' = [ proc EXCEPT ![p] =
                       [ l EXCEPT !.data = stamped,
                                  !.folder = "customer_info",
                                  !.entry_id = next_id + 1,
                                  !.attempt = 0,
                                  !.pc = IF bucket THEN "put_remote"
                                         ELSE "put_local" ] ]

\* entry of enter_customer_info, up to the first storage operation
EnterCustomerInfo(p, args) ==
    LET normalized_category == _normalize_category(args.category)
        customer_data == [ args EXCEPT !.category = normalized_category ]
        l == [ Idle EXCEPT !.op = "enter_customer_info", !.args = args,
                           !.data = customer_data, !.prev = Summary(proc[p]),
                           !.overlap = \E q \in Procs \ { p } :
                                           proc[q].pc \notin { "idle", "done" } ]
    IN  /\ proc[p].pc \in { "idle", "done" }
        /\ IF ~HasData(customer_data)
           THEN /\ proc' = [ proc EXCEPT ![p] =
                               [ l EXCEPT !.pc = "done",
                                          !.result =
                                              [ status |-> "error",
                                                error_message |-> "validation" ] ] ]
                /\ UNCHANGED << next_id, clock >>
           ELSE IF ~bucket
           THEN StartPut(p, l)
           ELSE /\ proc' = [ proc EXCEPT ![p] = [ l EXCEPT !.pc = "find_list" ] ]
                /\ UNCHANGED << next_id, clock >>
        /\ UNCHANGED << bucket, gcs, disk, origin >>

\* _find_existing_customer: storage_client.list_blobs(prefix="customer_info/")
FindList(p, outcomes) ==
    LET l == proc[p]
        listed == [ i \in 1..Len(gcs["customer_info"]) |-> gcs["customer_info"][i].id ]
    IN  /\ l.pc = "find_list"
        /\ \E ok \in outcomes :
            IF ok /\ listed # << >>
            THEN /\ proc' = [ proc EXCEPT ![p] =
                                [ l EXCEPT !.pc = "find_next", !.scan = listed,
                                           !.ops = l.ops + 1 ] ]
                 /\ UNCHANGED << next_id, clock >>
            ELSE StartPut(p, [ l EXCEPT !.ops = l.ops + 1,
                                        !.log = IF ok THEN l.log
                                                ELSE l.log \cup { Error("Error searching for existing customer") } ])
        /\ UNCHANGED << bucket, gcs, disk, origin >>

\* _find_existing_customer: one iteration of `for blob in blobs`, and on a hit
\* the merge that enter_customer_info computes before its next storage call
FindNext(p, outcomes) ==
    LET l == proc[p]
        id == Head(l.scan)
    IN  /\ l.pc = "find_next"
        /\ \E ok \in outcomes :
            LET m == [ l EXCEPT !.ops = l.ops + 1,
                                !.log = IF ok /\ HasBlob("customer_info", id)
                                        THEN l.log
                                        ELSE l.log \cup { Warning("Error reading customer blob", 0) } ]
            IN
            IF ok /\ HasBlob("customer_info", id)
                  /\ Matches(BlobData("customer_info", id), l.args.name, l.args.email)
            THEN /\ \E interests_order \in
                        Orderings(MergedInterests(BlobData("customer_info", id), l.data)) :
                        proc' = [ proc EXCEPT ![p] =
                                    [ m EXCEPT !.pc = "delete",
                                               !.is_update = TRUE,
                                               !.blob_name = id,
                                               !.scan = << >>,
                                               !.data =
                                                   _merge_customer_data(
                                                       BlobData("customer_info", id),
                                                       l.data, interests_order) ] ]
                 /\ UNCHANGED << next_id, clock >>
            ELSE IF Tail(l.scan) # << >>
            THEN /\ proc' = [ proc EXCEPT ![p] = [ m EXCEPT !.scan = Tail(l.scan) ] ]
                 /\ UNCHANGED << next_id, clock >>
            ELSE StartPut(p, [ m EXCEPT !.scan = << >> ])
        /\ UNCHANGED << bucket, gcs, disk, origin >>

\* "Delete old blob": old_blob.delete(), its failure caught and logged
DeleteOld(p, outcomes) ==
    LET l == proc[p] IN
    /\ l.pc = "delete"
    /\ \E ok \in outcomes :
        /\ gcs' = IF ok
                  THEN [ gcs EXCEPT !["customer_info"] = Without(@, l.blob_name) ]
                  ELSE gcs
        /\ StartPut(p, [ l EXCEPT !.ops = l.ops + 1,
                                  !.deleted = ok,
                                  !.log = IF ok THEN l.log
                                          ELSE l.log \cup { Warning("Failed to delete old customer entry", 0) } ])
    /\ UNCHANGED << bucket, disk, origin >>

(* ------------------------------------------------------------------ *)
(* enter_financial_data                                                *)
(* ------------------------------------------------------------------ *)

CategoryLists ==
    { "transactions", "expenses", "bankStatements", "financeReports", "taxDocuments" }

HasFinancialData_not_none(financial_data) ==
    \E k \in CategoryLists :
        ~IsNone(financial_data[k]) /\ financial_data[k] # Str(<< >>)

\* "Check if at least one category list has data"
HasFinancialData(financial_data) ==
    \E k \in CategoryLists :
        /\ ~IsNone(financial_data[k])
        /\ financial_data[k] # Str(<< >>)
        /\ financial_data[k].t = "list"
        /\ Len(financial_data[k].v) > 0

EnterFinancialData(p, args) ==
    LET l == [ Idle EXCEPT !.op = "enter_financial_data", !.args = args,
                           !.prev = Summary(proc[p]) ]
    IN  /\ proc[p].pc \in { "idle", "done" }
        /\ IF ~HasFinancialData(args)
           THEN /\ proc' = [ proc EXCEPT ![p] =
                               [ l EXCEPT !.pc = "done",
                                          !.result =
                                              [ status |-> "error",
                                                error_message |-> "validation" ] ] ]
                /\ UNCHANGED << next_id, clock >>
           ELSE /\ clock' = clock + 1
                /\ next_id' = next_id + 1
                /\ proc' = [ proc EXCEPT ![p] =
                               [ l EXCEPT !.data = args @@ ("timestamp" :> Ts(clock + 1)),
                                          !.folder = "financial_data",
                                          !.entry_id = next_id + 1,
                                          !.pc = IF bucket THEN "put_remote"
                                                 ELSE "put_local" ] ]
        /\ UNCHANGED << bucket, gcs, disk, origin >>

(* ------------------------------------------------------------------ *)
(* get_storage                                                         *)
(* ------------------------------------------------------------------ *)

\* the parsed contents of every blob under a prefix, in listing order
Contents(folder) == [ i \in 1..Len(gcs[folder]) |-> gcs[folder][i].data ]

\* storage_data once the three loops have run
storage_data ==
    [ customer_info |-> Contents("customer_info"),
      financial_data |-> Contents("financial_data"),
      uploaded_files |-> Contents("uploaded_files") ]

get_storage_empty_on_error(ok) ==
    IF ~bucket THEN [ error |-> "GCS bucket not initialized." ]
    ELSE IF ~ok
    THEN [ customer_info |-> << >>, financial_data |-> << >>,
           uploaded_files |-> << >> ]
    ELSE storage_data

\* what get_storage returns; ok: no list_blobs or download_as_string raised
get_storage(ok) ==
    IF ~bucket THEN [ error |-> "GCS bucket not initialized." ]
    ELSE IF ~ok THEN [ error |-> "Error loading data from GCS" ]
    ELSE storage_data

GetStorage(p, outcomes) ==
    /\ proc[p].pc \in { "idle", "done" }
    /\ \E ok \in outcomes :
        proc' = [ proc EXCEPT ![p] =
                    [ Idle EXCEPT
                        !.op = "get_storage",
                        !.pc = "done",
                        !.prev = Summary(proc[p]),
                        !.failed = bucket /\ ~ok,
                        !.result = get_storage(ok) ] ]
    /\ UNCHANGED << bucket, gcs, disk, next_id, clock, origin >>

(* ------------------------------------------------------------------ *)
(* Inputs                                                              *)
(* ------------------------------------------------------------------ *)

\* the keyword arguments of enter_customer_info; the six fields left out are
\* plain scalars handled like phone
Args(name, email, phone, rewardPoints, prevOrders, interests, category) ==
    [ name |-> name, email |-> email, phone |-> phone,
      rewardPoints |-> rewardPoints, prevOrders |-> prevOrders,
      birthday |-> None, interests |-> interests, address |-> None,
      company |-> None, category |-> category, notes |-> None,
      paymentMethod |-> None, paymentLast4 |-> None ]

eLower == Str(<< "a", "@", "x" >>)
eUpper == Str(<< "A", "@", "X", " " >>)
nBob == Str(<< "B", "o", "b" >>)
nAl == Str(<< "A", "l" >>)
cVip == Str(<< "v", "i", "p" >>)
cActive == Str(<< " ", "A", "c", "t", "i", "v", "e" >>)
golf == << "g", "o", "l", "f" >>
tea == << "t", "e", "a" >>
phone1 == Str(<< "5", "5", "5" >>)

CustomerInputs ==
    { Args(None, None, None, None, None, None, None),
      Args(None, None, Str(<< >>), None, None, None, None),
      Args(None, None, None, None, None, List(<< >>), None),
      Args(None, None, None, None, None, None, cVip),
      Args(None, None, phone1, None, None, None, cVip),
      Args(nBob, None, None, None, None, List(<< golf >>), cActive),
      Args(None, eLower, None, Num(10), None, None, None),
      Args(None, eUpper, None, Num(5), None, List(<< golf >>), None),
      Args(nBob, eUpper, None, Num(5), None, List(<< tea >>), None),
      Args(nAl, eLower, None, Num(10), None, None, None) }

FinancialArgs(name, category, transactions, expenses) ==
    [ name |-> name, category |-> category, transactions |-> transactions,
      expenses |-> expenses, bankStatements |-> None, financeReports |-> None,
      taxDocuments |-> None ]

taxes == [ type |-> "taxes", amount |-> 1000 ]

FinancialInputs ==
    { FinancialArgs(None, None, None, None),
      FinancialArgs(None, None, List(<< >>), None),
      FinancialArgs(None, None, List(<< taxes >>), None),
      FinancialArgs(nBob, Str(<< "E", "x", "p", "e", "n", "s", "e", "s" >>),
                    None, List(<< taxes >>)) }

(* ------------------------------------------------------------------ *)
(* Specifications                                                      *)
(* ------------------------------------------------------------------ *)

\* one request at a time; every remote and local operation may fail
Next ==
    \/ next_id < MaxIds /\ \E args \in CustomerInputs : EnterCustomerInfo(1, args)
    \/ next_id < MaxIds /\ \E args \in FinancialInputs : EnterFinancialData(1, args)
    \/ FindList(1, BOOLEAN)
    \/ FindNext(1, BOOLEAN)
    \/ DeleteOld(1, BOOLEAN)
    \/ PutRemote(1, BOOLEAN)
    \/ PutLocal(1, BOOLEAN)
    \/ GetStorage(1, BOOLEAN)

Spec == Init /\ [][Next]_vars

\* one request at a time; the remote store is reachable and never fails
InitReachable == Init /\ bucket

NextReachable ==
    \/ next_id < MaxIdsReachable
       /\ \E args \in CustomerInputs : EnterCustomerInfo(1, args)
    \/ FindList(1, { TRUE })
    \/ FindNext(1, { TRUE })
    \/ DeleteOld(1, { TRUE })
    \/ PutRemote(1, { TRUE })
    \/ GetStorage(1, { TRUE })

SpecReachable == InitReachable /\ [][NextReachable]_vars

(* ------------------------------------------------------------------ *)
(* Properties                                                          *)
(* ------------------------------------------------------------------ *)

IsWrite(l) == l.op \in { "enter_customer_info", "enter_financial_data" }

\* the request passed validation and drew an identifier
Accepted(l) == IsWrite(l) /\ l.entry_id # 0

\* the record of request l is, in full, a blob of the remote store
StoredRemote(l) ==
    /\ Accepted(l)
    /\ HasBlob(l.folder, l.entry_id)
    /\ BlobData(l.folder, l.entry_id) = l.data

\* the record of request l is, in full, a local fallback file
StoredLocal(l) == Accepted(l) /\ File(l.folder, l.entry_id, l.data) \in disk

\* something is stored under the identifier of request l, in either place
AnyTrace(l) ==
    /\ Accepted(l)
    /\ \/ HasBlob(l.folder, l.entry_id)
       \/ \E f \in disk : f.folder = l.folder /\ f.id = l.entry_id

Scheme(location) == Head(location.v)

\* C1: a write request reports success exactly when its record is stored in
\* full, remotely or in the local fallback; when it reports an error, and
\* while it is still running, nothing is stored under its identifier.
C1_WriteAllOrNothing ==
    \A p \in Procs :
        LET l == proc[p] IN
        IsWrite(l) =>
            /\ l.pc = "done" =>
                   ((l.result.status = "success") <=> (StoredRemote(l) \/ StoredLocal(l)))
            /\ (l.pc = "done" /\ l.result.status = "error") => ~AnyTrace(l)
            /\ l.pc # "done" => ~AnyTrace(l)

\* C1 witness: remote and local writes both failed and the caller is told so
C1_Witness ==
    LET l == proc[1] IN
    /\ l.pc = "done" /\ IsWrite(l)
    /\ l.uploads = 3 /\ l.local_writes = 1
    /\ l.result.status = "error" /\ l.result.error_message = "storage"

\* C2: when the handle is absent or all 3 remote attempts failed, and the
\* local write succeeds, the payload is the file <folder>/<id>.json of the
\* fallback and the location starts with file://; a remote success returns a
\* location that starts with gs://; each scheme is returned for its own place only.
C2_FallbackLocation ==
    \A p \in Procs :
        LET l == proc[p] IN
        (l.pc = "done" /\ Accepted(l)) =>
            /\ ((~bucket \/ l.attempt = 3) /\ l.local_writes = 1 /\ StoredLocal(l)) =>
                   /\ Scheme(l.ret) = "file://"
                   /\ l.ret.v[4] = l.folder /\ l.ret.v[6] = l.entry_id
                   /\ l.result.gcs_path = l.ret
            /\ (l.uploads = l.attempt + 1) =>
                   /\ StoredRemote(l)
                   /\ Scheme(l.ret) = "gs://"
                   /\ l.ret.v[4] = l.folder /\ l.ret.v[6] = l.entry_id
                   /\ l.result.gcs_path = l.ret
            /\ Truthy(l.ret) =>
                   /\ Scheme(l.ret) \in { "gs://", "file://" }
                   /\ (Scheme(l.ret) = "file://") <=> StoredLocal(l)
                   /\ (Scheme(l.ret) = "gs://") <=> StoredRemote(l)

\* C2 witness: three failed attempts, then a fallback location
C2_Witness ==
    LET l == proc[1] IN
    /\ l.pc = "done" /\ Accepted(l) /\ bucket
    /\ l.attempt = 3 /\ StoredLocal(l) /\ Scheme(l.ret) = "file://"

\* C3: put returns None exactly when the local fallback write failed, which
\* is tried only with the handle absent or after 3 failed remote attempts;
\* otherwise it returns the remote or the fallback location.
C3_NoneOnlyWhenBothFail ==
    \A p \in Procs :
        LET l == proc[p] IN
        (l.pc = "done" /\ Accepted(l)) =>
            /\ IsNone(l.ret) <=>
                   /\ l.local_writes = 1 /\ ~StoredLocal(l)
                   /\ ~bucket \/ (l.attempt = 3 /\ l.uploads = 3)
            /\ ~IsNone(l.ret) =>
                   l.ret \in { GcsPath(l.folder, l.entry_id),
                               LocalUri(l.folder, l.entry_id) }

\* C3 witness: the handle is absent and the local write fails
C3_Witness ==
    LET l == proc[1] IN
    l.pc = "done" /\ Accepted(l) /\ ~bucket /\ IsNone(l.ret)

\* C4: one put makes at most 3 remote attempts, none after one succeeded,
\* and writes the fallback only after 3 failed attempts, or without any
\* remote attempt when the handle is absent.
C4_AtMostThreeAttempts ==
    \A p \in Procs :
        LET l == proc[p] IN
        /\ l.uploads <= 3
        /\ l.local_writes <= 1
        /\ l.uploads - l.attempt \in { 0, 1 }
        /\ l.uploads - l.attempt = 1 => (l.pc = "done" /\ l.local_writes = 0)
        /\ l.pc = "put_remote" => (l.attempt = l.uploads /\ l.attempt < 3)
        /\ (l.pc = "put_local" \/ l.local_writes > 0) =>
               \/ bucket /\ l.attempt = 3 /\ l.uploads = 3
               \/ ~bucket /\ l.uploads = 0

\* C4 witness: the third attempt has failed and the fallback is next
C4_Witness ==
    LET l == proc[1] IN
    l.pc = "put_local" /\ bucket /\ l.uploads = 3

\* the customer fields of a record, timestamp and identifier left out
Fields(data) == [ k \in CustomerKeys |-> Get(data, k) ]

\* the stored customer blobs whose email equals e after lower() and strip()
BlobsWithEmail(e) ==
    { i \in 1..Len(gcs["customer_info"]) :
        /\ Truthy(Get(gcs["customer_info"][i].data, "email"))
        /\ Normalized(gcs["customer_info"][i].data.email) = Normalized(e) }

InterestSet(data) == Range(OrElse(Get(data, "interests"), List(<< >>)).v)

Points(data) == OrElse(Get(data, "rewardPoints"), Num(0)).v

\* C5: a customer write that used the local fallback (every remote attempt
\* failed) without merging reports success, and the get_storage that follows
\* lists exactly one customer entry equal to the written record.
C5_FallbackWriteIsListed ==
    \A p \in Procs :
        LET l == proc[p] IN
        ( /\ bucket
          /\ l.pc = "done" /\ l.op = "get_storage"
          /\ l.prev.op = "enter_customer_info"
          /\ l.prev.result.status = "success"
          /\ ~l.prev.result.is_update
          /\ Scheme(l.prev.result.gcs_path) = "file://" )
        => /\ "customer_info" \in DOMAIN l.result
           /\ Cardinality({ i \in 1..Len(l.result.customer_info) :
                              Fields(l.result.customer_info[i]) = Fields(l.prev.data) }) = 1

\* C6: with the remote store reachable, a write that creates a customer
\* followed by a write with the same email (up to case and surrounding
\* blanks) leaves exactly one stored customer with that email, holding the
\* sum of the two rewardPoints and the union of the two interests, and the
\* second write reports is_update.
C6_SameEmailMerges ==
    \A p \in Procs :
        LET l == proc[p] IN
        ( /\ l.pc = "done" /\ l.op = "enter_customer_info"
          /\ l.prev.op = "enter_customer_info"
          /\ l.prev.result.status = "success"
          /\ ~l.prev.result.is_update
          /\ Truthy(l.args.email) /\ Truthy(l.prev.args.email)
          /\ Normalized(l.args.email) = Normalized(l.prev.args.email) )
        => /\ l.result.status = "success"
           /\ l.result.is_update
           /\ Cardinality(BlobsWithEmail(l.args.email)) = 1
           /\ \A i \in BlobsWithEmail(l.args.email) :
                LET stored == gcs["customer_info"][i].data IN
                /\ stored.rewardPoints = Num(Points(l.prev.args) + Points(l.args))
                /\ InterestSet(stored) = InterestSet(l.prev.args) \cup InterestSet(l.args)

\* the stored customer blobs that continue the record first written as blob r
BlobsOf(r) ==
    { i \in 1..Len(gcs["customer_info"]) :
        /\ gcs["customer_info"][i].id \in DOMAIN origin
        /\ origin[gcs["customer_info"][i].id] = r }

\* the logical customers written so far
Customers == { origin[id] : id \in DOMAIN origin }

\* a merging write of customer r has deleted the old blob and not yet created
\* the merged one
BetweenDeleteAndCreate(r) ==
    \E p \in Procs :
        /\ proc[p].op = "enter_customer_info"
        /\ proc[p].pc = "put_remote"
        /\ proc[p].is_update
        /\ proc[p].blob_name \in DOMAIN origin
        /\ origin[proc[p].blob_name] = r

AllNull(args) == \A k \in DOMAIN args : IsNone(args[k])

\* the step taken is a call of enter_customer_info by p
CallsEnterCustomerInfo(p) ==
    /\ proc[p].pc \in { "idle", "done" }
    /\ proc'[p] # proc[p]
    /\ proc'[p].op = "enter_customer_info"

ValidationError(l) ==
    /\ l.pc = "done"
    /\ l.result.status = "error"
    /\ l.result.error_message = "validation"

\* C8: a call of enter_customer_info with every field None returns the
\* validation error in that same step, with no storage operation: nothing is
\* listed, read, written or deleted, remotely or in the local fallback.
C8_NullRecordRejected ==
    [][ \A p \in Procs :
          (CallsEnterCustomerInfo(p) /\ AllNull(proc'[p].args)) =>
              /\ ValidationError(proc'[p])
              /\ proc'[p].ops = 0 /\ proc'[p].uploads = 0 /\ proc'[p].local_writes = 0
              /\ proc'[p].entry_id = 0
              /\ gcs' = gcs /\ disk' = disk /\ next_id' = next_id ]_vars

\* C8 witness: an all-None call was rejected while a customer is stored
C8_Witness ==
    LET l == proc[1] IN
    /\ l.op = "enter_customer_info" /\ AllNull(l.args)
    /\ ValidationError(l) /\ l.ops = 0
    /\ l.prev.op = "enter_customer_info" /\ l.prev.result.status = "success"
    /\ (gcs["customer_info"] # << >> \/ disk # {})

\* every argument of the call is None, an empty string or an empty list
AllEmpty(args) ==
    \A k \in DOMAIN args : args[k] \in { None, Str(<< >>), List(<< >>) }

\* C9 as stated: a record whose fields are all null, empty strings or empty
\* lists is rejected with the validation error and nothing is stored.
C9_EmptyRecordRejected ==
    \A p \in Procs :
        LET l == proc[p] IN
        (l.op = "enter_customer_info" /\ AllEmpty(l.args)) =>
            ValidationError(l) /\ l.entry_id = 0

\* a non-empty category string that is neither a key of category_map nor,
\* case-insensitively, one of VALID_CUSTOMER_CATEGORIES
Unrecognized(category) ==
    /\ category.t = "str"
    /\ category.v # << >>
    /\ ~ \E e \in category_map : e[1] = Lower(Strip(category.v))
    /\ ~ \E i \in 1..Len(VALID_CUSTOMER_CATEGORIES) :
            Lower(VALID_CUSTOMER_CATEGORIES[i]) = Lower(Strip(category.v))

\* a field besides category that is neither None nor the empty string
HasOtherField(args) ==
    \E k \in DOMAIN args \ { "category" } :
        ~IsNone(args[k]) /\ args[k] # Str(<< >>)

\* C10 as stated: a record with an unrecognized category is never rejected.
C10_UnrecognizedNeverRejected ==
    \A p \in Procs :
        LET l == proc[p] IN
        (l.op = "enter_customer_info" /\ Unrecognized(l.args.category)) =>
            ~ValidationError(l)

\* C10: a record that carries an unrecognized category together with some
\* other field that is neither None nor the empty string is not rejected: its
\* category is written as None (or as the matched record's category when it
\* merges), never as the unrecognized string, the other fields given are
\* written, and the result is success unless the local fallback write, the
\* last storage operation of the put, failed.
C10_UnrecognizedCategoryDropped ==
    \A p \in Procs :
        LET l == proc[p] IN
        ( /\ l.op = "enter_customer_info"
          /\ Unrecognized(l.args.category)
          /\ HasOtherField(l.args) )
        => /\ ~ValidationError(l)
           /\ l.data.category # l.args.category
           /\ ~l.is_update => IsNone(l.data.category)
           /\ l.is_update =>
                  \/ IsNone(l.data.category)
                  \/ \E i \in 1..Len(VALID_CUSTOMER_CATEGORIES) :
                        l.data.category = Str(VALID_CUSTOMER_CATEGORIES[i])
           /\ \A k \in DOMAIN l.args \ { "category", "rewardPoints",
                                         "prevOrders", "interests" } :
                  ~IsNone(l.args[k]) => l.data[k] = l.args[k]
           /\ l.pc = "done" =>
                  \/ /\ l.result.status = "success"
                     /\ StoredRemote(l) \/ StoredLocal(l)
                     /\ IsNone(l.result.data.category)
                        \/ l.is_update
                  \/ /\ l.result.status = "error"
                     /\ l.result.error_message = "storage"
                     /\ l.local_writes = 1 /\ ~StoredLocal(l)

\* C10 witness: phone and an unrecognized category were given, and the record
\* is stored remotely with category None and the phone
C10_Witness ==
    LET l == proc[1] IN
    /\ l.op = "enter_customer_info" /\ l.pc = "done"
    /\ l.args.category = cVip /\ l.args.phone = phone1
    /\ l.result.status = "success"
    /\ StoredRemote(l)
    /\ IsNone(BlobData("customer_info", l.entry_id).category)
    /\ BlobData("customer_info", l.entry_id).phone = phone1


(* ------------------------------------------------------------------ *)
(* Properties of the read side                                         *)
(* ------------------------------------------------------------------ *)

EmptyCollections ==
    [ customer_info |-> << >>, financial_data |-> << >>, uploaded_files |-> << >> ]

\* C11: get_storage returns an error value, and no collections, exactly when
\* the handle is absent or a list or download raised; a result without error
\* is the content of the store, so empty collections are returned only for a
\* reachable store that is empty.
C11_UnreachableStoreIsAnError ==
    \A p \in Procs :
        LET l == proc[p] IN
        (l.pc = "done" /\ l.op = "get_storage") =>
            /\ (~bucket \/ l.failed) <=> ("error" \in DOMAIN l.result)
            /\ "error" \in DOMAIN l.result => DOMAIN l.result = { "error" }
            /\ "error" \notin DOMAIN l.result => l.result = storage_data
            /\ l.result = EmptyCollections =>
                   /\ bucket /\ ~l.failed
                   /\ \A f \in Folders : gcs[f] = << >>

\* C11 witness: the store holds a customer, a read of it raised, and the
\* caller got the error value
C11_Witness ==
    LET l == proc[1] IN
    /\ l.pc = "done" /\ l.op = "get_storage"
    /\ bucket /\ l.failed /\ gcs["customer_info"] # << >>
    /\ "error" \in DOMAIN l.result


(* ------------------------------------------------------------------ *)
(* Read-side views of main.py                                          *)
(* ------------------------------------------------------------------ *)

\* raise HTTPException(status_code, detail)
HTTPException(status_code, detail) == [ raised |-> status_code, detail |-> detail ]

StatsBucket_drop_unrecognized(customer) ==
    LET category == Get(customer, "category") IN
    IF ~Truthy(category) THEN "uncategorized"
    ELSE IF Lower(category.v) = Lower(sProspective) THEN "prospective"
    ELSE IF Lower(category.v) = Lower(sCurrent) THEN "current"
    ELSE IF Lower(category.v) = Lower(sInactive) THEN "inactive"
    ELSE "unrecognized"

\* the bucket of stats that the loop of get_customer_stats increments
StatsBucket(customer) ==
    LET category == Get(customer, "category") IN
    IF ~Truthy(category) THEN "uncategorized"
    ELSE IF Lower(category.v) = Lower(sProspective) THEN "prospective"
    ELSE IF Lower(category.v) = Lower(sCurrent) THEN "current"
    ELSE IF Lower(category.v) = Lower(sInactive) THEN "inactive"
    ELSE "uncategorized"

\* GET /api/customers/stats, given what get_storage returned
get_customer_stats(storage) ==
    IF "error" \in DOMAIN storage
    THEN [ status |-> "success",
           stats |-> [ total |-> 0, prospective |-> 0, current |-> 0,
                       inactive |-> 0, uncategorized |-> 0 ] ]
    ELSE LET customers == storage.customer_info
             n(b) == Cardinality({ i \in 1..Len(customers) :
                                     StatsBucket(customers[i]) = b })
         IN  [ status |-> "success",
               stats |-> [ total |-> Len(customers),
                           prospective |-> n("prospective"),
                           current |-> n("current"),
                           inactive |-> n("inactive"),
                           uncategorized |-> n("uncategorized") ] ]

RECURSIVE FilterByCategory_case_sensitive(_, _)
FilterByCategory_case_sensitive(customers, category) ==
    IF customers = << >> THEN << >>
    ELSE LET c == Head(customers)
             rest == FilterByCategory_case_sensitive(Tail(customers), category)
         IN  IF Truthy(Get(c, "category")) /\ Get(c, "category").v = category.v
             THEN << c >> \o rest
             ELSE rest

\* the list comprehension of get_customers
RECURSIVE FilterByCategory(_, _)
FilterByCategory(customers, category) ==
    IF customers = << >> THEN << >>
    ELSE LET c == Head(customers)
             rest == FilterByCategory(Tail(customers), category)
         IN  IF Truthy(Get(c, "category"))
                /\ Lower(Get(c, "category").v) = Lower(category.v)
             THEN << c >> \o rest
             ELSE rest

get_customers_raise_on_error(storage, category) ==
    IF "error" \in DOMAIN storage
    THEN HTTPException(500, "Error retrieving customers")
    ELSE [ status |-> "success", count |-> Len(storage.customer_info),
           customers |-> storage.customer_info ]

\* GET /api/customers?category=, given what get_storage returned
get_customers(storage, category) ==
    IF "error" \in DOMAIN storage
    THEN [ status |-> "success", count |-> 0, customers |-> << >> ]
    ELSE LET customers ==
                 IF Truthy(category)
                 THEN FilterByCategory(storage.customer_info, category)
                 ELSE storage.customer_info
         IN  [ status |-> "success", count |-> Len(customers),
               customers |-> customers ]

\* the test with both sides trimmed
EmailIs_trimmed(c, customer_id) ==
    /\ Truthy(Get(c, "email"))
    /\ Strip(Lower(Get(c, "email").v)) = Strip(Lower(customer_id.v))

\* the test of the loop of get_customer on one customer
EmailIs(c, customer_id) ==
    /\ Truthy(Get(c, "email"))
    /\ Lower(Get(c, "email").v) = Lower(customer_id.v)

\* GET /api/customers/{customer_id}, given what get_storage returned
get_customer(storage, customer_id) ==
    IF "error" \in DOMAIN storage
    THEN HTTPException(404, "Customer not found (storage unavailable)")
    ELSE LET customers == storage.customer_info
             hits == { i \in 1..Len(customers) : EmailIs(customers[i], customer_id) }
         IN  IF hits = {}
             THEN HTTPException(404, "Customer with email not found")
             ELSE [ status |-> "success",
                    customer |-> customers[CHOOSE i \in hits :
                                               \A j \in hits : i <= j] ]

\* a read-side endpoint: one call of get_storage and the view computed from it
View(p, op, args, result, ok) ==
    /\ proc[p].pc \in { "idle", "done" }
    /\ proc' = [ proc EXCEPT ![p] =
                   [ Idle EXCEPT !.op = op, !.pc = "done", !.args = args,
                                 !.prev = Summary(proc[p]),
                                 !.failed = bucket /\ ~ok,
                                 !.result = result ] ]
    /\ UNCHANGED << bucket, gcs, disk, next_id, clock, origin >>

GetCustomerStats(p, outcomes) ==
    \E ok \in outcomes :
        View(p, "get_customer_stats", None, get_customer_stats(get_storage(ok)), ok)

GetCustomers(p, outcomes, category) ==
    \E ok \in outcomes :
        View(p, "get_customers", category,
             get_customers(get_storage(ok), category), ok)

GetCustomer(p, outcomes, customer_id) ==
    \E ok \in outcomes :
        View(p, "get_customer", customer_id,
             get_customer(get_storage(ok), customer_id), ok)

\* the category query parameters and the customer_id path parameters tried
CategoryQueries == { None, Str(sCurrent), Str(Lower(sCurrent)), cVip }

EmailQueries == { eLower, eUpper, Str(<< "b", "@", "y" >>) }

\* number of write requests accepted in one run of SpecViews
MaxIdsViews == 2

\* one request at a time; writes succeed where the handle allows, and every
\* read of the store by a view may fail
NextViews ==
    \/ next_id < MaxIdsViews
       /\ \E args \in CustomerInputs : EnterCustomerInfo(1, args)
    \/ FindList(1, { TRUE })
    \/ FindNext(1, { TRUE })
    \/ DeleteOld(1, { TRUE })
    \/ PutRemote(1, { TRUE })
    \/ PutLocal(1, { TRUE })
    \/ GetCustomerStats(1, BOOLEAN)
    \/ \E category \in CategoryQueries : GetCustomers(1, BOOLEAN, category)
    \/ \E customer_id \in EmailQueries : GetCustomer(1, BOOLEAN, customer_id)

SpecViews == Init /\ [][NextViews]_vars

IsView(l) == l.op \in { "get_customer_stats", "get_customers", "get_customer" }

\* the view could not read the store: handle absent, or a list or download raised
StoreUnavailable(l) == ~bucket \/ l.failed

Raised(l) == "raised" \in DOMAIN l.result

\* C12 as stated: with the store unavailable, each of the three views returns
\* an empty or zero result and does not raise.
C12_ViewsNeverRaise ==
    \A p \in Procs :
        LET l == proc[p] IN
        (l.pc = "done" /\ IsView(l) /\ StoreUnavailable(l)) => ~Raised(l)

\* C12: with the store unavailable, count-by-category returns all counts 0
\* and filter-by-category returns an empty list with count 0, both with status
\* success and without raising, while lookup-by-email raises HTTPException
\* 404 (customer not found, storage unavailable) instead of returning a result.
C12_CountAndFilterDegradeLookupRaises404 ==
    \A p \in Procs :
        LET l == proc[p] IN
        (l.pc = "done" /\ IsView(l) /\ StoreUnavailable(l)) =>
            /\ l.op = "get_customer_stats" =>
                   /\ ~Raised(l) /\ l.result.status = "success"
                   /\ \A b \in DOMAIN l.result.stats : l.result.stats[b] = 0
            /\ l.op = "get_customers" =>
                   /\ ~Raised(l) /\ l.result.status = "success"
                   /\ l.result.count = 0 /\ l.result.customers = << >>
            /\ l.op = "get_customer" =>
                   Raised(l) /\ l.result.raised = 404

\* C12 witness: a customer with the queried email is stored, the read of the
\* store raised, and lookup-by-email raised 404
C12_Witness ==
    LET l == proc[1] IN
    /\ l.pc = "done" /\ l.op = "get_customer" /\ bucket /\ l.failed
    /\ \E i \in 1..Len(gcs["customer_info"]) :
           EmailIs(gcs["customer_info"][i].data, l.args)
    /\ Raised(l) /\ l.result.raised = 404


(* ------------------------------------------------------------------ *)
(* extract_data_from_file: the record of the uploaded file             *)
(* ------------------------------------------------------------------ *)

\* file_content, file_type and what _extract_with_gemini answered
FileArgs(file_content, file_type, data_type, confidence) ==
    [ file_content |-> file_content, file_type |-> file_type,
      data_type |-> data_type, confidence |-> confidence ]

\* "Store file info in GCS": file_entry, a fresh uuid, _upload_json_to_gcs
ExtractDataFromFile(p, args) ==
    LET file_entry ==
            [ content_preview |-> args.file_content,
              file_type |-> OrElse(args.file_type, Str(<< "unknown" >>)),
              timestamp |-> Ts(clock + 1),
              extraction_confidence |-> args.confidence,
              data_type |-> args.data_type ]
        l == [ Idle EXCEPT !.op = "extract_data_from_file", !.args = args,
                           !.data = file_entry, !.prev = Summary(proc[p]),
                           !.folder = "uploaded_files",
                           !.entry_id = next_id + 1,
                           !.pc = IF bucket THEN "put_remote" ELSE "put_local" ]
    IN  /\ proc[p].pc \in { "idle", "done" }
        /\ proc' = [ proc EXCEPT ![p] = l ]
        /\ clock' = clock + 1
        /\ next_id' = next_id + 1
        /\ UNCHANGED << bucket, gcs, disk, origin >>

FileInputs ==
    { FileArgs(Str(<< "invoice 12" >>), Str(<< "txt" >>), "financial_data", 9),
      FileArgs(Str(<< "hello" >>), None, "unknown", 3) }

(* ------------------------------------------------------------------ *)
(* update_all_customers_category                                       *)
(* ------------------------------------------------------------------ *)

\* the success value of update_all_customers_category
UpdatedResult(l, updated_count) ==
    [ status |-> "success", updated_count |-> updated_count,
      category |-> l.normalized_category,
      message |-> << "Updated ", updated_count, " customer(s) to category ",
                     l.normalized_category.v >> ]

\* entry of update_all_customers_category, up to list_blobs
UpdateAllCustomersCategory(p, category) ==
    LET normalized_category == _normalize_category(category)
        l == [ Idle EXCEPT !.op = "update_all_customers_category",
                           !.args = category, !.prev = Summary(proc[p]) ]
    IN  /\ proc[p].pc \in { "idle", "done" }
        /\ proc' = [ proc EXCEPT ![p] =
                 IF ~bucket
                 THEN [ l EXCEPT !.pc = "done",
                                 !.result = [ status |-> "error",
                                              message |-> "GCS not initialized." ] ]
                 ELSE IF ~Truthy(normalized_category)
                 THEN [ l EXCEPT !.pc = "done",
                                 !.result = [ status |-> "error",
                                              message |-> "Invalid category" ] ]
                 ELSE [ l EXCEPT !.pc = "update_list",
                                 !.normalized_category = normalized_category ] ]
        /\ UNCHANGED << bucket, gcs, disk, next_id, clock, origin >>

\* storage_client.list_blobs(prefix="customer_info/"); its failure is caught
\* by the outer try
UpdateList(p, outcomes) ==
    LET l == proc[p]
        m == [ l EXCEPT !.ops = l.ops + 1 ]
        listed == [ i \in 1..Len(gcs["customer_info"]) |-> gcs["customer_info"][i].id ]
    IN  /\ l.pc = "update_list"
        /\ \E ok \in outcomes :
            proc' = [ proc EXCEPT ![p] =
                IF ~ok
                THEN [ m EXCEPT !.pc = "done", !.failed = TRUE,
                                !.result = [ status |-> "error",
                                             message |-> "Error updating customer categories" ] ]
                ELSE IF listed = << >>
                THEN [ m EXCEPT !.pc = "done", !.result = UpdatedResult(l, 0) ]
                ELSE [ m EXCEPT !.pc = "update_download", !.scan = listed ] ]
        /\ UNCHANGED << bucket, gcs, disk, next_id, clock, origin >>

\* `for blob in blobs`: on to the next blob, or the return after the last one
UpdateAdvance(l) ==
    IF Tail(l.scan) # << >>
    THEN [ l EXCEPT !.scan = Tail(l.scan), !.pc = "update_download" ]
    ELSE [ l EXCEPT !.scan = << >>, !.pc = "done",
                    !.result = UpdatedResult(l, l.count) ]

WithCategory_keep(customer_data, normalized_category) == customer_data

\* customer_data["category"] = normalized_category
WithCategory(customer_data, normalized_category) ==
    [ k \in DOMAIN customer_data \cup { "category" } |->
        IF k = "category" THEN normalized_category ELSE customer_data[k] ]

\* blob.download_as_string() and the category update; an exception (the blob
\* is gone, or the read failed) is logged and the loop continues
UpdateDownload(p, outcomes) ==
    LET l == proc[p]
        id == Head(l.scan)
        m == [ l EXCEPT !.ops = l.ops + 1 ]
    IN  /\ l.pc = "update_download"
        /\ \E ok \in outcomes :
            proc' = [ proc EXCEPT ![p] =
                IF ok /\ HasBlob("customer_info", id)
                THEN [ m EXCEPT !.pc = "update_upload",
                                !.data = WithCategory(BlobData("customer_info", id),
                                                      l.normalized_category) ]
                ELSE UpdateAdvance([ m EXCEPT !.failed = TRUE ]) ]
        /\ UNCHANGED << bucket, gcs, disk, next_id, clock, origin >>

\* the listing once blob id holds data: replaced in place, or created anew at
\* position pos when no blob of that name is left
Uploaded(s, id, data, pos) ==
    IF \E i \in 1..Len(s) : s[i].id = id
    THEN [ i \in 1..Len(s) |-> IF s[i].id = id THEN [ id |-> id, data |-> data ]
                                ELSE s[i] ]
    ELSE InsertAt(s, pos, [ id |-> id, data |-> data ])

\* blob.upload_from_string(...) on the listed blob, and updated_count += 1
UpdateUpload(p, outcomes) ==
    LET l == proc[p]
        id == Head(l.scan)
        m == [ l EXCEPT !.ops = l.ops + 1 ]
    IN  /\ l.pc = "update_upload"
        /\ \E ok \in outcomes :
            IF ok
            THEN /\ \E pos \in 0..Len(gcs["customer_info"]) :
                        gcs' = [ gcs EXCEPT !["customer_info"] =
                                   Uploaded(@, id, l.data, pos) ]
                 /\ proc' = [ proc EXCEPT ![p] =
                                UpdateAdvance([ m EXCEPT !.count = l.count + 1 ]) ]
            ELSE /\ proc' = [ proc EXCEPT ![p] =
                                UpdateAdvance([ m EXCEPT !.failed = TRUE ]) ]
                 /\ UNCHANGED gcs
        /\ UNCHANGED << bucket, disk, next_id, clock, origin >>

(* ------------------------------------------------------------------ *)
(* clear_storage                                                       *)
(* ------------------------------------------------------------------ *)

\* folders = ["customer_info/", "financial_data/", "uploaded_files/"]
folders == << "customer_info", "financial_data", "uploaded_files" >>

ClearedResult_error_when_zero(deleted_count) ==
    IF deleted_count = 0
    THEN [ status |-> "error", message |-> "Error clearing storage from GCS" ]
    ELSE [ status |-> "success",
           message |-> << "Cleared ", deleted_count, " file(s) from GCS." >> ]

\* the success value of clear_storage
ClearedResult(deleted_count) ==
    [ status |-> "success",
      message |-> << "Cleared ", deleted_count, " file(s) from GCS." >> ]

ClearError(l) ==
    [ l EXCEPT !.pc = "done", !.failed = TRUE,
               !.result = [ status |-> "error",
                            message |-> "Error clearing storage from GCS" ] ]

\* entry of clear_storage, up to the first list_blobs
ClearStorage(p) ==
    LET l == [ Idle EXCEPT !.op = "clear_storage", !.prev = Summary(proc[p]) ]
    IN  /\ proc[p].pc \in { "idle", "done" }
        /\ proc' = [ proc EXCEPT ![p] =
                 IF ~bucket
                 THEN [ l EXCEPT !.pc = "done",
                                 !.result = [ status |-> "error",
                                              message |-> "GCS not initialized." ] ]
                 ELSE [ l EXCEPT !.pc = "clear_list", !.folders = folders ] ]
        /\ UNCHANGED << bucket, gcs, disk, next_id, clock, origin >>

\* `for folder in folders`: on to the next folder, or the return after the last
ClearNextFolder(l) ==
    IF Tail(l.folders) # << >>
    THEN [ l EXCEPT !.folders = Tail(l.folders), !.scan = << >>,
                    !.pc = "clear_list" ]
    ELSE [ l EXCEPT !.folders = << >>, !.scan = << >>, !.pc = "done",
                    !.result = ClearedResult(l.count) ]

\* storage_client.list_blobs(prefix=folder)
ClearList(p, outcomes) ==
    LET l == proc[p]
        m == [ l EXCEPT !.ops = l.ops + 1 ]
        folder == Head(l.folders)
        listed == [ i \in 1..Len(gcs[folder]) |-> gcs[folder][i].id ]
    IN  /\ l.pc = "clear_list"
        /\ \E ok \in outcomes :
            proc' = [ proc EXCEPT ![p] =
                IF ~ok THEN ClearError(m)
                ELSE IF listed = << >> THEN ClearNextFolder(m)
                ELSE [ m EXCEPT !.scan = listed, !.pc = "clear_delete" ] ]
        /\ UNCHANGED << bucket, gcs, disk, next_id, clock, origin >>

\* blob.delete() and deleted_count += 1; an exception (the blob is gone, or
\* the delete failed) ends clear_storage with the error value
ClearDelete(p, outcomes) ==
    LET l == proc[p]
        m == [ l EXCEPT !.ops = l.ops + 1 ]
        folder == Head(l.folders)
        id == Head(l.scan)
    IN  /\ l.pc = "clear_delete"
        /\ \E ok \in outcomes :
            IF ok /\ HasBlob(folder, id)
            THEN /\ gcs' = [ gcs EXCEPT ![folder] = Without(@, id) ]
                 /\ proc' = [ proc EXCEPT ![p] =
                        IF Tail(l.scan) # << >>
                        THEN [ m EXCEPT !.scan = Tail(l.scan), !.count = l.count + 1 ]
                        ELSE ClearNextFolder([ m EXCEPT !.count = l.count + 1 ]) ]
            ELSE /\ proc' = [ proc EXCEPT ![p] = ClearError(m) ]
                 /\ UNCHANGED gcs
        /\ UNCHANGED << bucket, disk, next_id, clock, origin >>


(* ------------------------------------------------------------------ *)
(* Clearing the store                                                  *)
(* ------------------------------------------------------------------ *)

\* number of write requests accepted in one run of SpecClear
MaxIdsClear == 2

\* one request at a time against a reachable store that never fails: writes
\* to the three collections, and clear_storage
NextClear ==
    \/ next_id < MaxIdsClear
       /\ \E args \in CustomerInputs : EnterCustomerInfo(1, args)
    \/ next_id < MaxIdsClear
       /\ \E args \in FinancialInputs : EnterFinancialData(1, args)
    \/ next_id < MaxIdsClear
       /\ \E args \in FileInputs : ExtractDataFromFile(1, args)
    \/ FindList(1, { TRUE })
    \/ FindNext(1, { TRUE })
    \/ DeleteOld(1, { TRUE })
    \/ PutRemote(1, { TRUE })
    \/ ClearStorage(1)
    \/ ClearList(1, { TRUE })
    \/ ClearDelete(1, { TRUE })

SpecClear == InitReachable /\ [][NextClear]_vars

\* C13: with the store reachable, every clear_storage that has returned
\* reports success and leaves the three collections empty; a clear_storage
\* called right after another one deletes nothing and reports success with
\* 0 deleted items.
C13_ClearIsIdempotent ==
    \A p \in Procs :
        LET l == proc[p] IN
        (l.pc = "done" /\ l.op = "clear_storage") =>
            /\ l.result.status = "success"
            /\ \A f \in Folders : gcs[f] = << >>
            /\ l.prev.op = "clear_storage" =>
                   /\ l.prev.result.status = "success"
                   /\ l.count = 0
                   /\ l.result = ClearedResult(0)

\* C13 witness: the first clear deleted two blobs, the second returned
\* success with 0 deleted
C13_Witness ==
    LET l == proc[1] IN
    /\ l.pc = "done" /\ l.op = "clear_storage"
    /\ l.prev.op = "clear_storage" /\ l.prev.result = ClearedResult(2)
    /\ l.result = ClearedResult(0)
    /\ \A f \in Folders : gcs[f] = << >>


(* ------------------------------------------------------------------ *)
(* Setting the category of every customer                              *)
(* ------------------------------------------------------------------ *)

\* the category arguments tried: "active", " Active", "Prospective", "vip", ""
CategoryInputs ==
    { Str(sActive), cActive, Str(sProspective), cVip, Str(<< >>) }

\* number of write requests accepted in one run of SpecUpdate
MaxIdsUpdate == 2

\* one request at a time against a reachable store that never fails:
\* customer writes and update_all_customers_category
NextUpdate ==
    \/ next_id < MaxIdsUpdate
       /\ \E args \in CustomerInputs : EnterCustomerInfo(1, args)
    \/ FindList(1, { TRUE })
    \/ FindNext(1, { TRUE })
    \/ DeleteOld(1, { TRUE })
    \/ PutRemote(1, { TRUE })
    \/ \E category \in CategoryInputs : UpdateAllCustomersCategory(1, category)
    \/ UpdateList(1, { TRUE })
    \/ UpdateDownload(1, { TRUE })
    \/ UpdateUpload(1, { TRUE })

SpecUpdate == InitReachable /\ [][NextUpdate]_vars

\* the category that s stands for: its trimmed, lower-cased form is
\* "prospective", "current" or "active", or "inactive"
CategoryOf(s) ==
    LET w == Lower(Strip(s)) IN
    IF w = Lower(sProspective) THEN Str(sProspective)
    ELSE IF w = Lower(sCurrent) \/ w = sActive THEN Str(sCurrent)
    ELSE IF w = Lower(sInactive) THEN Str(sInactive)
    ELSE None

\* C14: with the store reachable, update_all_customers_category(c), for a c
\* that stands for a category, returns success, leaves every stored customer
\* with that category ("active" gives "Current"), and returns a count equal
\* to the number of stored customers.
C14_AllCustomersGetTheCategory ==
    \A p \in Procs :
        LET l == proc[p] IN
        ( /\ l.pc = "done" /\ l.op = "update_all_customers_category"
          /\ ~IsNone(CategoryOf(l.args.v)) )
        => /\ l.result.status = "success"
           /\ l.result.category = CategoryOf(l.args.v)
           /\ \A i \in 1..Len(gcs["customer_info"]) :
                  gcs["customer_info"][i].data.category = CategoryOf(l.args.v)
           /\ l.result.updated_count = Len(gcs["customer_info"])

\* C14 witness: two customers are stored, one of them written without a
\* category, and "active" has set both to "Current"
C14_Witness ==
    LET l == proc[1] IN
    /\ l.pc = "done" /\ l.op = "update_all_customers_category"
    /\ l.args = Str(sActive)
    /\ Len(gcs["customer_info"]) = 2
    /\ l.result.updated_count = 2
    /\ \E i \in 1..2 : gcs["customer_info"][i].data.email = eLower
    /\ \A i \in 1..2 : gcs["customer_info"][i].data.category = Str(sCurrent)


(* ------------------------------------------------------------------ *)
(* The category normaliser as a function                               *)
(* ------------------------------------------------------------------ *)

UpperChar(c) ==
    IF \E i \in 1..Len(LowerAlpha) : LowerAlpha[i] = c
    THEN UpperAlpha[CHOOSE i \in 1..Len(LowerAlpha) : LowerAlpha[i] = c]
    ELSE c

Upper(s) == [ i \in 1..Len(s) |-> UpperChar(s[i]) ]

Capitalize(s) ==
    [ i \in 1..Len(s) |-> IF i = 1 THEN UpperChar(s[i]) ELSE s[i] ]

\* the words tried as categories: the three values, the synonym, and others
CategoryWords ==
    { Lower(sProspective), Lower(sCurrent), Lower(sInactive), sActive,
      << "v", "i", "p" >>, << "c", "u", "r", "r" >>,
      << "i", "n", " ", "a", "c", "t", "i", "v", "e" >>, << >> }

\* every word in three casings and five paddings, and None
CategoryStrings ==
    { None } \cup
    { Str(pre \o c \o post) :
        c \in UNION { { w, Capitalize(w), Upper(w) } : w \in CategoryWords },
        pre \in { << >>, << " " >>, << "\t", " " >> },
        post \in { << >>, << " " >>, << "\n" >> } }

\* _normalize_category is about to be applied to one of the inputs
InitNormalize ==
    /\ bucket = TRUE
    /\ gcs = [ f \in Folders |-> << >> ]
    /\ disk = {}
    /\ next_id = 0
    /\ clock = 0
    /\ origin = << >>
    /\ \E category \in CategoryStrings :
           proc = [ p \in Procs |->
                      IF p = 1
                      THEN [ Idle EXCEPT !.op = "_normalize_category",
                                         !.pc = "call", !.args = category ]
                      ELSE Idle ]

\* _normalize_category applied to the argument, then to its own result
NormalizeCategory(p) ==
    LET l == proc[p] IN
    /\ l.op = "_normalize_category"
    /\ l.pc \in { "call", "call_again" }
    /\ proc' = [ proc EXCEPT ![p] =
                   IF l.pc = "call"
                   THEN [ l EXCEPT !.pc = "call_again",
                                   !.result = _normalize_category(l.args) ]
                   ELSE [ l EXCEPT !.pc = "done",
                                   !.ret = _normalize_category(l.result) ] ]
    /\ UNCHANGED << bucket, gcs, disk, next_id, clock, origin >>

NextNormalize == NormalizeCategory(1)

SpecNormalize == InitNormalize /\ [][NextNormalize]_vars

Normalised(l) == l.op = "_normalize_category" /\ l.pc \in { "call_again", "done" }

\* C15: _normalize_category maps every input, None included, to one of
\* Prospective, Current, Inactive or None, and applied to its own result it
\* returns that result.
C15_NormalizeTotalAndIdempotent ==
    \A p \in Procs :
        LET l == proc[p] IN
        /\ Normalised(l) =>
               l.result \in { Str(sProspective), Str(sCurrent), Str(sInactive), None }
        /\ (l.op = "_normalize_category" /\ l.pc = "done") => l.ret = l.result

\* C15 witness: "\t ACTIVE\n" gave Current, and Current gave Current again
C15_Witness ==
    LET l == proc[1] IN
    /\ l.op = "_normalize_category" /\ l.pc = "done"
    /\ l.args = Str(<< "\t", " " >> \o Upper(sActive) \o << "\n" >>)
    /\ l.result = Str(sCurrent) /\ l.ret = Str(sCurrent)

\* C16: _normalize_category returns Prospective, Current or Inactive exactly
\* when the input, trimmed and lower-cased, is "prospective", "current" or
\* "active", or "inactive" respectively, and None for every other input, None
\* and the empty string included.
C16_NormalizeTable ==
    \A p \in Procs :
        LET l == proc[p] IN
        Normalised(l) =>
            /\ IsNone(l.args) => IsNone(l.result)
            /\ ~IsNone(l.args) => l.result = CategoryOf(l.args.v)
            /\ l.args = Str(<< >>) => IsNone(l.result)

\* C16 witness: " Active" gave Current
C16_Witness ==
    LET l == proc[1] IN
    /\ Normalised(l)
    /\ l.args = Str(<< " " >> \o Capitalize(sActive))
    /\ l.result = Str(sCurrent)


(* ------------------------------------------------------------------ *)
(* The merge as a function                                             *)
(* ------------------------------------------------------------------ *)

oA == Order(Str(<< "A" >>), Num(1), 10)
oA_again == Order(Str(<< "A" >>), None, 12)
oB == Order(Str(<< "B" >>), Num(2), 20)
oNumber7 == Order(None, Num(7), 30)
oNoKey == Order(None, None, 40)

PointsInputs == { None, Num(0), Num(5), Num(10) }

OrdersInputs ==
    { None, List(<< >>), List(<< oA >>), List(<< oA_again, oB >>),
      List(<< oNumber7 >>), List(<< oNoKey >>), List(<< oB, oNumber7, oA >>) }

InterestsInputs == { None, List(<< golf >>), List(<< tea, golf >>) }

\* the customer_data of the two writes that are merged
MergeInputs ==
    { Args(nBob, None, None, rewardPoints, prevOrders, interests, None) :
        rewardPoints \in PointsInputs, prevOrders \in OrdersInputs,
        interests \in InterestsInputs }

\* customer_data as stored by the write that created the record
Stored(customer_data) == customer_data @@ ("timestamp" :> Ts(1))

\* two writes a and b are about to be merged, in both orders
InitMerge ==
    /\ bucket = TRUE
    /\ gcs = [ f \in Folders |-> << >> ]
    /\ disk = {}
    /\ next_id = 0
    /\ clock = 1
    /\ origin = << >>
    /\ \E a \in MergeInputs, b \in MergeInputs :
           proc = [ p \in Procs |->
                      IF p = 1
                      THEN [ Idle EXCEPT !.op = "_merge_customer_data",
                                         !.pc = "call",
                                         !.args = [ a |-> a, b |-> b ] ]
                      ELSE Idle ]

\* _merge_customer_data(existing = stored a, new = b), and with a and b swapped
MergeCustomerData(p) ==
    LET l == proc[p]
        a == l.args.a
        b == l.args.b
    IN  /\ l.op = "_merge_customer_data"
        /\ l.pc = "call"
        /\ \E ab_order \in Orderings(MergedInterests(Stored(a), b)),
              ba_order \in Orderings(MergedInterests(Stored(b), a)) :
               proc' = [ proc EXCEPT ![p] =
                   [ l EXCEPT !.pc = "done",
                              !.result =
                                  [ ab |-> _merge_customer_data(Stored(a), b, ab_order),
                                    ba |-> _merge_customer_data(Stored(b), a, ba_order) ] ] ]
        /\ UNCHANGED << bucket, gcs, disk, next_id, clock, origin >>

NextMerge == MergeCustomerData(1)

SpecMerge == InitMerge /\ [][NextMerge]_vars

Merged(l) == l.op = "_merge_customer_data" /\ l.pc = "done"

\* rewardPoints of a write, None counted as 0
PointsOrZero(customer_data) ==
    IF IsNone(customer_data.rewardPoints) THEN 0 ELSE customer_data.rewardPoints.v

\* C17: the merged rewardPoints is the sum of the existing and the incoming
\* rewardPoints, None counted as 0, so merging b into a and a into b give the
\* same rewardPoints.
C17_RewardPointsSumCommutes ==
    \A p \in Procs :
        LET l == proc[p] IN
        Merged(l) =>
            /\ l.result.ab.rewardPoints =
                   Num(PointsOrZero(l.args.a) + PointsOrZero(l.args.b))
            /\ l.result.ab.rewardPoints = l.result.ba.rewardPoints

\* C17 witness: 10 merged with 5 gives 15 in both orders
C17_Witness ==
    LET l == proc[1] IN
    /\ Merged(l)
    /\ l.args.a.rewardPoints = Num(10) /\ l.args.b.rewardPoints = Num(5)
    /\ l.result.ab.rewardPoints = Num(15) /\ l.result.ba.rewardPoints = Num(15)

\* the orders of a prevOrders value
OrdersOf(prevOrders) == IF IsNone(prevOrders) THEN << >> ELSE prevOrders.v

\* the identifier of an order: order_id, or order_number when there is none
OrderKey(order) ==
    IF ~IsNone(order.order_id) THEN order.order_id ELSE order.order_number

\* the positions of the orders identified by key
WithKey(orders, key) == { i \in 1..Len(orders) : OrderKey(orders[i]) = key }

\* C18: when an order identifier belongs to one order of each of the two
\* merged writes, the merged prevOrders holds exactly one order with that
\* identifier.
C18_SharedOrderAppearsOnce ==
    \A p \in Procs :
        LET l == proc[p]
            ordersA == OrdersOf(l.args.a.prevOrders)
            ordersB == OrdersOf(l.args.b.prevOrders)
        IN  Merged(l) =>
            \A i \in 1..Len(ordersA) :
                LET key == OrderKey(ordersA[i]) IN
                ( /\ ~IsNone(key)
                  /\ Cardinality(WithKey(ordersA, key)) = 1
                  /\ Cardinality(WithKey(ordersB, key)) = 1 )
                => /\ Cardinality(WithKey(OrdersOf(l.result.ab.prevOrders), key)) = 1
                   /\ Cardinality(WithKey(OrdersOf(l.result.ba.prevOrders), key)) = 1

\* C18 witness: order A is in both writes, with different amounts, and the
\* merged list of three orders holds the stored one only
C18_Witness ==
    LET l == proc[1] IN
    /\ Merged(l)
    /\ l.args.a.prevOrders = List(<< oA >>)
    /\ l.args.b.prevOrders = List(<< oA_again, oB >>)
    /\ l.result.ab.prevOrders = List(<< oA, oB >>)


(* ------------------------------------------------------------------ *)
(* Concurrent customer writes                                          *)
(* ------------------------------------------------------------------ *)

\* writes for one customer: the same email up to case and blanks
RaceInputs ==
    { Args(None, eLower, None, Num(10), None, None, None),
      Args(None, eUpper, None, Num(5), None, List(<< golf >>), None) }

\* number of write requests accepted in one run of SpecConcurrent
MaxIdsConcurrent == 3

\* two handlers whose steps interleave freely (no lock is taken), against a
\* reachable store that never fails
NextConcurrent ==
    \E p \in Procs :
        \/ next_id < MaxIdsConcurrent
           /\ \E args \in RaceInputs : EnterCustomerInfo(p, args)
        \/ FindList(p, { TRUE })
        \/ FindNext(p, { TRUE })
        \/ DeleteOld(p, { TRUE })
        \/ PutRemote(p, { TRUE })

SpecConcurrent == InitReachable /\ [][NextConcurrent]_vars


\* no handler is in the middle of a request
AllDone == \A p \in Procs : proc[p].pc \in { "idle", "done" }

\* the request before the current one of handler p was a customer write
HadWriteBefore(p) ==
    /\ proc[p].op = "enter_customer_info"
    /\ proc[p].prev.op = "enter_customer_info"

\* the customer writes a handler remembers: its last one and the one before
WritesOf(p) ==
    (IF proc[p].op = "enter_customer_info" THEN { proc[p].args } ELSE {})
    \cup (IF HadWriteBefore(p)
          THEN { proc[p].prev.args } ELSE {})

PointsOf(p) ==
    (IF proc[p].op = "enter_customer_info" THEN Points(proc[p].args) ELSE 0)
    + (IF HadWriteBefore(p)
       THEN Points(proc[p].prev.args) ELSE 0)

WriteCount(p) ==
    (IF proc[p].op = "enter_customer_info" THEN 1 ELSE 0)
    + (IF HadWriteBefore(p)
       THEN 1 ELSE 0)

\* every write made so far has returned and is remembered by its handler
AllWritesKnown ==
    /\ AllDone
    /\ next_id > 0
    /\ WriteCount(1) + WriteCount(2) = next_id

\* blob i holds every write made so far: all the points, all the interests
HoldsEveryWrite(i) ==
    LET stored == gcs["customer_info"][i].data IN
    /\ Points(stored) = PointsOf(1) + PointsOf(2)
    /\ InterestSet(stored) =
           UNION { InterestSet(w) : w \in WritesOf(1) \cup WritesOf(2) }

\* exactly two writes were made, one by each handler, and one was called
\* while the other was running
TwoWritesInterleaved ==
    /\ AllDone
    /\ next_id = 2
    /\ \A p \in Procs : proc[p].op = "enter_customer_info"
    /\ \E p \in Procs : proc[p].overlap

MaxIdsAppend == 3

\* one request at a time; writes to the three collections, and every remote
\* and local write may fail
NextAppend ==
    \/ next_id < MaxIdsAppend
       /\ \E args \in RaceInputs : EnterCustomerInfo(1, args)
    \/ next_id < MaxIdsAppend
       /\ \E args \in FinancialInputs : EnterFinancialData(1, args)
    \/ next_id < MaxIdsAppend
       /\ \E args \in FileInputs : ExtractDataFromFile(1, args)
    \/ FindList(1, { TRUE })
    \/ FindNext(1, { TRUE })
    \/ DeleteOld(1, { TRUE })
    \/ PutRemote(1, BOOLEAN)
    \/ PutLocal(1, BOOLEAN)

SpecAppend == Init /\ [][NextAppend]_vars

AppendOps == { "enter_financial_data", "extract_data_from_file" }

\* handler p takes a step of a financial or uploaded-file write
AppendStep(p) == proc'[p] # proc[p] /\ proc'[p].op \in AppendOps

\* the step ends the put with a location: the write succeeded
PutSucceeds(p) == proc'[p].pc = "done" /\ proc[p].pc # "done" /\ Truthy(proc'[p].ret)

\* the blob of request l is new in the listing after, and the rest is as before
OneBlobAdded(before, after, l) ==
    /\ Len(after) = Len(before) + 1
    /\ ~ \E i \in 1..Len(before) : before[i].id = l.entry_id
    /\ \E i \in 1..Len(after) : after[i] = [ id |-> l.entry_id, data |-> l.data ]
    /\ SelectIds(after, l.entry_id) = before

\* C20: every step of enter_financial_data and of the uploaded-file write of
\* extract_data_from_file leaves each existing blob and fallback file of every
\* collection as it is; the step that ends the put with a location adds
\* exactly one new entry under a new identifier to the request's own
\* collection, as a remote blob or as a fallback file, and every other step
\* adds nothing.
C20_AppendOnly ==
    [][ \A p \in Procs :
          AppendStep(p) =>
              LET l == proc'[p]
                  own == l.folder
              IN  /\ \A f \in Folders \ { own } : gcs'[f] = gcs[f]
                  /\ \A f \in disk : f \in disk'
                  /\ IF PutSucceeds(p)
                     THEN \/ /\ OneBlobAdded(gcs[own], gcs'[own], l)
                             /\ disk' = disk
                          \/ /\ gcs'[own] = gcs[own]
                             /\ File(own, l.entry_id, l.data) \notin disk
                             /\ disk' = disk \cup { File(own, l.entry_id, l.data) }
                     ELSE gcs' = gcs /\ disk' = disk ]_vars

\* C20 witness: the uploaded-file record has just been stored remotely, next
\* to a customer blob and a financial blob
C20_Witness ==
    LET l == proc[1] IN
    /\ l.op = "extract_data_from_file" /\ l.pc = "done"
    /\ HasBlob("uploaded_files", l.entry_id)
    /\ Len(gcs["customer_info"]) = 1
    /\ Len(gcs["financial_data"]) = 1

(* ------------------------------------------------------------------ *)
(* Validation of financial records                                     *)
(* ------------------------------------------------------------------ *)

bill == [ type |-> "bills", amount |-> 200 ]

\* calls of enter_financial_data: no list at all, only the two scalar
\* fields, empty lists, an empty string, a string that is not a list, and
\* each of the five category lists as the only one with data
FinancialListInputs ==
    LET none == FinancialArgs(None, None, None, None)
        words == Str(<< "n", "/", "a" >>)
    IN  { none,
          FinancialArgs(nBob, words, None, None),
          FinancialArgs(None, None, List(<< >>), List(<< >>)),
          [ none EXCEPT !.taxDocuments = List(<< >>) ],
          [ none EXCEPT !.expenses = Str(<< >>) ],
          [ none EXCEPT !.bankStatements = words ],
          [ none EXCEPT !.transactions = List(<< bill >>) ],
          [ none EXCEPT !.expenses = List(<< taxes, bill >>) ],
          [ none EXCEPT !.bankStatements = List(<< bill >>) ],
          [ none EXCEPT !.financeReports = List(<< bill >>) ],
          [ none EXCEPT !.taxDocuments = List(<< taxes >>) ],
          [ none EXCEPT !.transactions = List(<< >>),
                        !.financeReports = List(<< taxes >>) ] }

\* number of financial records accepted in one run of SpecFinancial
MaxIdsFinancial == 2

\* calls of enter_financial_data, one at a time; every write may fail
NextFinancial ==
    \/ next_id < MaxIdsFinancial
       /\ \E args \in FinancialListInputs : EnterFinancialData(1, args)
    \/ PutRemote(1, BOOLEAN)
    \/ PutLocal(1, BOOLEAN)

SpecFinancial == Init /\ [][NextFinancial]_vars

\* the step taken is a call of enter_financial_data by p
CallsEnterFinancialData(p) ==
    /\ proc[p].pc \in { "idle", "done" }
    /\ proc'[p] # proc[p]
    /\ proc'[p].op = "enter_financial_data"

\* a value that is a list with at least one element
NonEmptyList(x) == x.t = "list" /\ x.v # << >>

\* one of the five category lists of the call is a non-empty list
SomeCategoryList(args) ==
    \/ NonEmptyList(args.transactions)
    \/ NonEmptyList(args.expenses)
    \/ NonEmptyList(args.bankStatements)
    \/ NonEmptyList(args.financeReports)
    \/ NonEmptyList(args.taxDocuments)

\* C21: a call of enter_financial_data goes on to the write (it draws an
\* identifier and starts the put) if and only if one of transactions,
\* expenses, bankStatements, financeReports, taxDocuments is a non-null,
\* non-empty list; every other call returns the validation error in the same
\* step, with no storage operation and the stores and the id counter unchanged.
C21_FinancialAcceptedIffSomeList ==
    [][ \A p \in Procs :
          CallsEnterFinancialData(p) =>
              LET l == proc'[p] IN
              IF SomeCategoryList(l.args)
              THEN /\ l.pc \in { "put_remote", "put_local" }
                   /\ l.entry_id = next_id' /\ next_id' = next_id + 1
                   /\ l.folder = "financial_data"
              ELSE /\ ValidationError(l)
                   /\ l.ops = 0 /\ l.uploads = 0 /\ l.local_writes = 0
                   /\ l.entry_id = 0
                   /\ gcs' = gcs /\ disk' = disk /\ next_id' = next_id ]_vars

\* C21 witness: a call whose only list is empty was rejected right after a
\* call with one list of data was stored, and that blob is the only one
C21_Witness ==
    LET l == proc[1] IN
    /\ l.op = "enter_financial_data" /\ ValidationError(l)
    /\ l.args.taxDocuments = List(<< >>)
    /\ l.prev.op = "enter_financial_data" /\ l.prev.result.status = "success"
    /\ SomeCategoryList(l.prev.args)
    /\ Len(gcs["financial_data"]) = 1 /\ disk = {}

(* ------------------------------------------------------------------ *)
(* Count-by-category and filter-by-category over a listed store        *)
(* ------------------------------------------------------------------ *)

\* number of customer blobs the store lists in SpecListing
MaxListed == 3

\* the category of a listed customer blob: absent, empty, the three values
\* of the enumeration, an enumeration value that was stored without
\* normalisation, and a value outside the enumeration
StoredCategories ==
    { None, Str(<< >>), Str(sProspective), Str(sCurrent), Str(sInactive),
      Str(Lower(sCurrent)), cVip }

\* the category query parameters tried
FilterQueries ==
    { None, Str(<< >>), Str(sCurrent), Str(Lower(sCurrent)),
      Str(Upper(sInactive)), Str(sActive), Str(<< " " >> \o sCurrent), cVip }

\* the store lists up to MaxListed customer blobs, of any category
InitListing ==
    /\ bucket = TRUE
    /\ disk = {}
    /\ clock = 1
    /\ origin = << >>
    /\ proc = [ p \in Procs |-> Idle ]
    /\ \E n \in 0..MaxListed :
        /\ next_id = n
        /\ \E categories \in [ 1..n -> StoredCategories ] :
             gcs = [ f \in Folders |->
                       IF f = "customer_info"
                       THEN [ i \in 1..n |->
                                [ id |-> i,
                                  data |-> Stored(Args(nBob, None, None, None, None,
                                                       None, categories[i])) ] ]
                       ELSE << >> ]

\* one call of either category view on the listed store; the read of the
\* store may fail
NextListing ==
    \/ proc[1].pc = "idle" /\ GetCustomerStats(1, BOOLEAN)
    \/ proc[1].pc = "idle"
       /\ \E category \in FilterQueries : GetCustomers(1, BOOLEAN, category)

SpecListing == InitListing /\ [][NextListing]_vars

\* two characters that are equal, or the two cases of one letter
SameLetter(x, y) ==
    \/ x = y
    \/ \E i \in 1..Len(UpperAlpha) : { x, y } = { UpperAlpha[i], LowerAlpha[i] }

\* two strings equal up to the case of their letters
SameLetters(a, b) ==
    /\ Len(a) = Len(b)
    /\ \A i \in 1..Len(a) : SameLetter(a[i], b[i])

\* the category of a stored customer is, up to case, the enumeration value word
HasCategory(customer, word) ==
    /\ customer.category.t = "str"
    /\ SameLetters(customer.category.v, word)

\* the category of a stored customer is null, empty or outside the enumeration
Uncategorized(customer) ==
    /\ ~HasCategory(customer, sProspective)
    /\ ~HasCategory(customer, sCurrent)
    /\ ~HasCategory(customer, sInactive)

HowMany(customers, Test(_)) ==
    Cardinality({ i \in 1..Len(customers) : Test(customers[i]) })

IsProspective(customer) == HasCategory(customer, sProspective)
IsCurrent(customer) == HasCategory(customer, sCurrent)
IsInactive(customer) == HasCategory(customer, sInactive)

\* C22: the four bucket counts of get_customer_stats always sum to the
\* reported total; when the store was read, the total is the number of stored
\* customers, prospective, current and inactive count the customers whose
\* category is that value up to case, and uncategorized counts every other
\* customer (category null, empty or outside the enumeration).
C22_BucketsSumToTotal ==
    \A p \in Procs :
        LET l == proc[p]
            stats == l.result.stats
            customers == Contents("customer_info")
        IN  (l.op = "get_customer_stats" /\ l.pc = "done") =>
                /\ stats.prospective + stats.current + stats.inactive
                       + stats.uncategorized = stats.total
                /\ ~l.failed =>
                       /\ stats.total = Len(customers)
                       /\ stats.prospective = HowMany(customers, IsProspective)
                       /\ stats.current = HowMany(customers, IsCurrent)
                       /\ stats.inactive = HowMany(customers, IsInactive)
                       /\ stats.uncategorized = HowMany(customers, Uncategorized)

\* C22 witness: of three stored customers one is Current, one has no
\* category and one has a category outside the enumeration, and the stats
\* report 1 current and 2 uncategorized of 3
C22_Witness ==
    LET l == proc[1]
        customers == Contents("customer_info")
    IN  /\ l.op = "get_customer_stats" /\ l.pc = "done" /\ ~l.failed
        /\ Len(customers) = 3
        /\ \E i \in 1..3 : IsNone(customers[i].category)
        /\ \E i \in 1..3 : customers[i].category = cVip
        /\ l.result.stats.current = 1
        /\ l.result.stats.uncategorized = 2
        /\ l.result.stats.total = 3


\* the stored customer has a category that equals the query up to case
MatchesQuery(customer, category) ==
    /\ ~IsNone(customer.category)
    /\ customer.category.t = "str" /\ customer.category.v # << >>
    /\ SameLetters(customer.category.v, category.v)

\* the customers at the positions of S, in listing order
RECURSIVE AtPositions(_, _)
AtPositions(customers, S) ==
    IF S = {} THEN << >>
    ELSE LET i == CHOOSE i \in S : \A j \in S : i <= j
         IN  << customers[i] >> \o AtPositions(customers, S \ { i })

\* C23: called with a category, get_customers returns, in listing order,
\* exactly the stored customers whose category equals the query up to the
\* case of its letters (no trimming, no alias), never a customer whose
\* category is null, and count is the number of customers returned. (Without
\* a category, or with an empty one, no filter is applied.)
C23_FilterExactUpToCase ==
    \A p \in Procs :
        LET l == proc[p]
            customers == Contents("customer_info")
        IN  (l.op = "get_customers" /\ l.pc = "done") =>
                /\ l.result.count = Len(l.result.customers)
                /\ (~l.failed /\ Truthy(l.args)) =>
                       /\ l.result.customers =
                              AtPositions(customers,
                                          { i \in 1..Len(customers) :
                                              MatchesQuery(customers[i], l.args) })
                       /\ \A i \in 1..Len(l.result.customers) :
                              ~IsNone(l.result.customers[i].category)

\* C23 witness: the query "current" returned the one customer stored as
\* Current and left out a customer without category and an Inactive one
C23_Witness ==
    LET l == proc[1]
        customers == Contents("customer_info")
    IN  /\ l.op = "get_customers" /\ l.pc = "done" /\ ~l.failed
        /\ l.args = Str(Lower(sCurrent))
        /\ Len(customers) = 3
        /\ \E i \in 1..3 : IsNone(customers[i].category)
        /\ \E i \in 1..3 : customers[i].category = Str(sInactive)
        /\ l.result.count = 1
        /\ l.result.customers[1].category = Str(sCurrent)

(* ------------------------------------------------------------------ *)
(* Identity resolution: which stored record a write is merged into     *)
(* ------------------------------------------------------------------ *)

nBobLower == Str(<< "b", "o", "b", " " >>)
eOther == Str(<< "b", "@", "y" >>)

\* writes that differ in who they name: no name or Bob in two spellings, no
\* email or one of two addresses, one of them in two spellings
IdentityInputs ==
    { Args(name, email, phone1, None, None, None, None) :
        name \in { None, nBob, nBobLower },
        email \in { None, eLower, eUpper, eOther } }

\* number of write requests accepted in one run of SpecIdentity
MaxIdsIdentity == 3

\* one request at a time; the remote store is reachable and never fails
NextIdentity ==
    \/ next_id < MaxIdsIdentity
       /\ \E args \in IdentityInputs : EnterCustomerInfo(1, args)
    \/ FindList(1, { TRUE })
    \/ FindNext(1, { TRUE })
    \/ DeleteOld(1, { TRUE })
    \/ PutRemote(1, { TRUE })

SpecIdentity == InitReachable /\ [][NextIdentity]_vars

\* the string without the blanks around it
Trimmed(x) == Strip(x.v)

HasEmail(customer_data) == Truthy(customer_data.email)
HasName(customer_data) == Truthy(customer_data.name)

\* both carry an email, equal up to case and surrounding blanks
SameEmail(a, b) ==
    HasEmail(a) /\ HasEmail(b) /\ SameLetters(Trimmed(a.email), Trimmed(b.email))

\* both carry a name, equal up to case and surrounding blanks
SameName(a, b) ==
    HasName(a) /\ HasName(b) /\ SameLetters(Trimmed(a.name), Trimmed(b.name))

\* _find_existing_customer has just returned a stored record to handler p,
\* which has merged the write into it and has not yet deleted the old blob
Found(p) == proc[p].op = "enter_customer_info" /\ proc[p].pc = "delete"

\* the stored record that was returned
FoundRecord(p) == BlobData("customer_info", proc[p].blob_name)

\* C24 as stated: a write that has a name and no email is never matched
\* with, and merged into, a stored record that has an email.
C24_NameOnlyWriteNeverMatchesEmailRecord ==
    \A p \in Procs :
        (Found(p) /\ HasName(proc[p].args) /\ ~HasEmail(proc[p].args)) =>
            ~HasEmail(FoundRecord(p))

\* C24: the record _find_existing_customer returns has the email of the
\* write, or it has the name of the write and the write or the record carries
\* no email; so a write that has a name and an email is never matched with,
\* and merged into, a stored record that has a different email.
C24_NameMatchUnlessBothHaveEmail ==
    \A p \in Procs :
        Found(p) =>
            LET new == proc[p].args
                existing == FoundRecord(p)
            IN  /\ \/ SameEmail(new, existing)
                   \/ SameName(new, existing)
                      /\ (~HasEmail(new) \/ ~HasEmail(existing))
                /\ (HasEmail(new) /\ HasEmail(existing)) => SameEmail(new, existing)

\* C24 witness: a write with a name and no email was matched with a stored
\* record of that name that has an email, while a write with that name and
\* another email had been stored as a record of its own
C24_Witness ==
    /\ Found(1)
    /\ HasName(proc[1].args) /\ ~HasEmail(proc[1].args)
    /\ HasEmail(FoundRecord(1))
    /\ \E i, j \in 1..Len(gcs["customer_info"]) :
           LET a == gcs["customer_info"][i].data
               b == gcs["customer_info"][j].data
           IN  SameName(a, b) /\ HasEmail(a) /\ HasEmail(b) /\ ~SameEmail(a, b)


\* a stored customer record carries the email of the write of handler p
EmailStored(p) ==
    \E i \in 1..Len(gcs["customer_info"]) :
        SameEmail(proc[p].args, gcs["customer_info"][i].data)

\* C25 as stated: when the email of the write equals the email of a stored
\* record (up to case and surrounding blanks), the record that
\* _find_existing_customer returns is one with that email, whichever stored
\* records have the name of the write and in whichever order the store lists
\* them.
C25_EmailMatchWins ==
    \A p \in Procs :
        (Found(p) /\ HasEmail(proc[p].args) /\ EmailStored(p)) =>
            SameEmail(proc[p].args, FoundRecord(p))

(* ------------------------------------------------------------------ *)
(* The merge, field by field                                           *)
(* ------------------------------------------------------------------ *)

phone2 == Str(<< "7", "7", "7" >>)

\* writes that differ in their scalar fields: a field is None, the empty
\* string or one of two values
ScalarInputs ==
    { [ Args(name, None, phone, None, None, None, None)
          EXCEPT !.notes = notes ] :
        name \in { nBob, nBobLower },
        phone \in { None, Str(<< >>), phone1, phone2 },
        notes \in { None, Str(<< >>), phone1 } }

oA_number9 == Order(Str(<< "A" >>), Num(9), 11)
oNumber9 == Order(None, Num(9), 31)
oId9 == Order(Num(9), None, 32)
oEmptyId7 == Order(Str(<< >>), Num(7), 33)

\* writes that differ in prevOrders: orders with an identifier, with an order
\* number only, with neither, an identifier that is another order's number,
\* and lists that repeat a key
OrderListInputs ==
    { Args(nBob, None, None, None, prevOrders, None, None) :
        prevOrders \in
            { None, List(<< >>), List(<< oA, oB >>), List(<< oA_again >>),
              List(<< oNumber7, oNoKey >>), List(<< oNoKey, oNoKey >>),
              List(<< oB, oA_again, oA >>), List(<< oA_number9 >>),
              List(<< oNumber9, oB >>), List(<< oId9, oNumber9 >>),
              List(<< oEmptyId7, oNumber7 >>) } }

\* writes that differ in interests, one of them with a repeated interest
InterestListInputs ==
    { Args(nBob, None, None, None, None, interests, None) :
        interests \in
            { None, List(<< >>), List(<< golf >>), List(<< tea, golf >>),
              List(<< tea, tea >>) } }

\* writes that differ in category; as the existing record they stand for a
\* blob whose category was stored by another writer without normalisation
CategoryFieldInputs ==
    { Args(nBob, None, None, None, None, None, category) :
        category \in
            { None, Str(<< >>), cVip, cActive, Str(sProspective),
              Str(Lower(sInactive)), Str(sCurrent) } }

FieldInputs ==
    ScalarInputs \cup OrderListInputs \cup InterestListInputs
    \cup CategoryFieldInputs

\* two writes a and b are about to be merged, in both orders
InitFields ==
    /\ bucket = TRUE
    /\ gcs = [ f \in Folders |-> << >> ]
    /\ disk = {}
    /\ next_id = 0
    /\ clock = 1
    /\ origin = << >>
    /\ \E a \in FieldInputs, b \in FieldInputs :
           proc = [ p \in Procs |->
                      IF p = 1
                      THEN [ Idle EXCEPT !.op = "_merge_customer_data",
                                         !.pc = "call",
                                         !.args = [ a |-> a, b |-> b ] ]
                      ELSE Idle ]

NextFields == MergeCustomerData(1)

SpecFields == InitFields /\ [][NextFields]_vars

\* the fields that no branch of the merge names
ScalarKeys ==
    { "name", "email", "phone", "birthday", "address", "company", "notes",
      "paymentMethod", "paymentLast4" }

NullOrEmpty(x) == IsNone(x) \/ x = Str(<< >>)

\* the claim's rule for one scalar field
ScalarRule(existing, incoming, merged) ==
    /\ (NullOrEmpty(existing) /\ ~IsNone(incoming)) => merged = incoming
    /\ (~IsNone(existing) /\ ~IsNone(incoming) /\ existing # incoming)
           => merged = incoming
    /\ IsNone(incoming) => merged = existing

\* C26: for every scalar field, the merged value is the incoming value when
\* the existing value is null or empty and the incoming value is not null,
\* the incoming value when both are non-null and differ, and the existing
\* value when the incoming value is null.
C26_ScalarMerge ==
    \A p \in Procs :
        LET l == proc[p] IN
        Merged(l) =>
            \A key \in ScalarKeys :
                /\ ScalarRule(l.args.a[key], l.args.b[key], l.result.ab[key])
                /\ ScalarRule(l.args.b[key], l.args.a[key], l.result.ba[key])

\* C26 witness: the stored phone was kept against an incoming null, the
\* stored name was replaced by a different incoming name, and the empty
\* stored notes took the incoming notes
C26_Witness ==
    LET l == proc[1] IN
    /\ Merged(l)
    /\ l.args.a.phone = phone1 /\ IsNone(l.args.b.phone)
    /\ l.result.ab.phone = phone1
    /\ l.args.a.name = nBob /\ l.args.b.name = nBobLower
    /\ l.result.ab.name = nBobLower
    /\ l.args.a.notes = Str(<< >>) /\ l.args.b.notes = phone1
    /\ l.result.ab.notes = phone1


\* a value that counts as given: not None, not empty, not 0
Given(x) == Truthy(x)

\* the key of an order: its identifier, or its order number when the
\* identifier is absent; None when it has neither
KeyOf(order) ==
    IF Given(order.order_id) THEN order.order_id
    ELSE IF Given(order.order_number) THEN order.order_number
    ELSE None

\* key is the key of an order of the list
IsKeyIn(key, orders) ==
    \E i \in 1..Len(orders) : ~IsNone(KeyOf(orders[i])) /\ KeyOf(orders[i]) = key

\* key is the identifier or the order number of an order of the list
IsIdOrNumberIn(key, orders) ==
    \E i \in 1..Len(orders) :
        \/ Given(orders[i].order_id) /\ orders[i].order_id = key
        \/ Given(orders[i].order_number) /\ orders[i].order_number = key

\* the union keyed by key: each incoming order in turn is appended iff it has
\* no key or its key is not the key of an order of the list
RECURSIVE UnionByKey(_, _)
UnionByKey(orders, incoming) ==
    IF incoming = << >> THEN orders
    ELSE LET order == Head(incoming) IN
         IF IsNone(KeyOf(order)) \/ ~IsKeyIn(KeyOf(order), orders)
         THEN UnionByKey(Append(orders, order), Tail(incoming))
         ELSE UnionByKey(orders, Tail(incoming))

\* each incoming order in turn is appended iff it has no key or its key is
\* neither the identifier nor the order number of an order of the list
RECURSIVE UnionByIdOrNumber(_, _)
UnionByIdOrNumber(orders, incoming) ==
    IF incoming = << >> THEN orders
    ELSE LET order == Head(incoming) IN
         IF IsNone(KeyOf(order)) \/ ~IsIdOrNumberIn(KeyOf(order), orders)
         THEN UnionByIdOrNumber(Append(orders, order), Tail(incoming))
         ELSE UnionByIdOrNumber(orders, Tail(incoming))

\* C27 as stated: the merged prevOrders is the existing list followed by the
\* incoming orders whose key (identifier, else order number) is not already
\* the key of an order in the list, and by every incoming order without key.
C27_OrdersUnionByKey ==
    \A p \in Procs :
        LET l == proc[p] IN
        Merged(l) =>
            /\ OrdersOf(l.result.ab.prevOrders) =
                   UnionByKey(OrdersOf(l.args.a.prevOrders),
                              OrdersOf(l.args.b.prevOrders))
            /\ OrdersOf(l.result.ba.prevOrders) =
                   UnionByKey(OrdersOf(l.args.b.prevOrders),
                              OrdersOf(l.args.a.prevOrders))

\* C27: the merged prevOrders keeps every existing order in its position; an
\* incoming order that has a key (identifier, else order number) is appended
\* iff that key is neither the identifier nor the order number of an order
\* already in the list, and an incoming order with neither identifier nor
\* order number is always appended.
C27_OrdersUnionByIdOrNumber ==
    \A p \in Procs :
        LET l == proc[p]
            existing == OrdersOf(l.args.a.prevOrders)
            incoming == OrdersOf(l.args.b.prevOrders)
            merged == OrdersOf(l.result.ab.prevOrders)
        IN  Merged(l) =>
            /\ merged = UnionByIdOrNumber(existing, incoming)
            /\ OrdersOf(l.result.ba.prevOrders) =
                   UnionByIdOrNumber(incoming, existing)
            /\ Len(merged) >= Len(existing)
            /\ SubSeq(merged, 1, Len(existing)) = existing
            /\ \A i \in 1..Len(incoming) :
                   IsNone(KeyOf(incoming[i])) =>
                       Cardinality({ j \in 1..Len(merged) : merged[j] = incoming[i] })
                           >= Cardinality({ j \in 1..Len(incoming) :
                                              incoming[j] = incoming[i] })

\* C27 witness: the incoming order has order number 9 and no identifier, the
\* stored order has identifier A and order number 9, and the incoming order
\* was not appended although no stored order has the key 9
C27_Witness ==
    LET l == proc[1] IN
    /\ Merged(l)
    /\ l.args.a.prevOrders = List(<< oA_number9 >>)
    /\ l.args.b.prevOrders = List(<< oNumber9, oB >>)
    /\ ~IsKeyIn(KeyOf(oNumber9), << oA_number9 >>)
    /\ l.result.ab.prevOrders = List(<< oA_number9, oB >>)


\* the interests of a write, null taken as no interests
InterestsOf(interests) == IF IsNone(interests) THEN << >> ELSE interests.v

\* C28: the merged interests hold every existing and every incoming interest
\* and nothing else, each exactly once, null counting as the empty set (and
\* a union that is empty is stored as null).
C28_InterestsSetUnion ==
    \A p \in Procs :
        LET l == proc[p]
            union == Range(InterestsOf(l.args.a.interests))
                         \cup Range(InterestsOf(l.args.b.interests))
            Exact(merged) ==
                /\ Range(merged) = union
                /\ Len(merged) = Cardinality(union)
        IN  Merged(l) =>
                /\ Exact(InterestsOf(l.result.ab.interests))
                /\ Exact(InterestsOf(l.result.ba.interests))

\* C28 witness: the stored interests repeat tea, the incoming ones are tea
\* and golf, and the merged interests are the two, each once
C28_Witness ==
    LET l == proc[1] IN
    /\ Merged(l)
    /\ l.args.a.interests = List(<< tea, tea >>)
    /\ l.args.b.interests = List(<< tea, golf >>)
    /\ Len(l.result.ab.interests.v) = 2
    /\ Range(l.result.ab.interests.v) = { tea, golf }


\* the value of the enumeration that a category names, up to case and
\* surrounding blanks, "active" naming Current; None for every other input
Canonical(category) ==
    IF category.t # "str" THEN None
    ELSE IF SameLetters(Trimmed(category), sProspective) THEN Str(sProspective)
    ELSE IF SameLetters(Trimmed(category), sCurrent)
            \/ SameLetters(Trimmed(category), sActive) THEN Str(sCurrent)
    ELSE IF SameLetters(Trimmed(category), sInactive) THEN Str(sInactive)
    ELSE None

\* the claim's rule for the merged category
CategoryRule(existing, incoming, merged) ==
    /\ ~IsNone(incoming) => merged = Canonical(incoming)
    /\ IsNone(incoming) => merged = Canonical(existing)
    /\ merged \in { Str(sProspective), Str(sCurrent), Str(sInactive), None }

\* C29: the merged category is the normalised incoming category when the
\* incoming category is present, and the normalised existing category when it
\* is absent; it is always Prospective, Current, Inactive or null, also when
\* the stored category was none of these.
C29_MergedCategoryNormalised ==
    \A p \in Procs :
        LET l == proc[p] IN
        Merged(l) =>
            /\ CategoryRule(l.args.a.category, l.args.b.category,
                            l.result.ab.category)
            /\ CategoryRule(l.args.b.category, l.args.a.category,
                            l.result.ba.category)

\* C29 witness: the stored category "vip" was never normalised, the incoming
\* write has no category, and the merged category is null
C29_Witness ==
    LET l == proc[1] IN
    /\ Merged(l)
    /\ l.args.a.category = cVip /\ IsNone(l.args.b.category)
    /\ IsNone(l.result.ab.category)
    /\ l.result.ba.category = l.result.ab.category


(* ------------------------------------------------------------------ *)
(* The timestamp of a merged record                                    *)
(* ------------------------------------------------------------------ *)

\* the blobs that were the first blob of a customer record
FirstBlobs == { origin[id] : id \in DOMAIN origin }

\* the clock reading at the first write of the record that blob id continues:
\* a write that creates a record reads the clock once, so the k-th record
\* created was stamped k
FirstWriteTime(id) ==
    Cardinality({ first \in FirstBlobs : first <= origin[id] })

\* C30: the merge keeps the timestamp of the existing record, which is never
\* later than the time of the incoming write, and every stored customer
\* record, however many writes were merged into it, carries the timestamp of
\* the write that created it.
C30_MergedKeepsFirstTimestamp ==
    /\ \A p \in Procs :
           Found(p) =>
               /\ Get(proc[p].data, "timestamp") = FoundRecord(p).timestamp
               /\ FoundRecord(p).timestamp.ts <= clock
    /\ \A i \in 1..Len(gcs["customer_info"]) :
           LET blob == gcs["customer_info"][i] IN
           blob.data.timestamp = Ts(FirstWriteTime(blob.id))

\* C30 witness: the only stored record is the third blob of a record that
\* two writes were merged into, and it carries the timestamp of the first
C30_Witness ==
    /\ Len(gcs["customer_info"]) = 1
    /\ gcs["customer_info"][1].id = 3
    /\ origin[3] = 1 /\ origin[2] = 1
    /\ gcs["customer_info"][1].data.timestamp = Ts(1)
    /\ proc[1].pc = "done" /\ proc[1].result.is_update


(* ------------------------------------------------------------------ *)
(* The replace of a matched record: merge, delete, create              *)
(* ------------------------------------------------------------------ *)

\* the old_blob.delete() of the request was issued, with or without success
DeleteIssued(l) ==
    l.deleted \/ Warning("Failed to delete old customer entry", 0) \in l.log

\* handler p takes a step of a customer write
CustomerStep(p) == proc'[p] # proc[p] /\ proc'[p].op = "enter_customer_info"

\* C31: in a customer write that found a match, the step that finds it
\* computes the merged record and touches no blob; the delete of the old blob
\* is issued next, before any write; the write that follows it is made under
\* an identifier drawn after the delete, different from the old blob's, and
\* no step of the write changes the data of the blob named by the old
\* identifier.
C31_DeleteAfterMergeBeforeWrite ==
    [][ \A p \in Procs :
          (CustomerStep(p) /\ proc'[p].is_update) =>
              LET l == proc[p]
                  m == proc'[p]
              IN  /\ m.pc = "delete" =>
                         /\ ~l.is_update /\ gcs' = gcs /\ disk' = disk
                         /\ m.data # l.data
                         /\ m.entry_id = 0 /\ m.uploads = 0 /\ m.local_writes = 0
                         /\ ~DeleteIssued(m)
                  /\ l.pc = "delete" =>
                         /\ DeleteIssued(m)
                         /\ m.pc \in { "put_remote", "put_local" }
                         /\ m.uploads = 0 /\ m.local_writes = 0
                         /\ m.entry_id = next_id' /\ next_id' = next_id + 1
                         /\ m.entry_id # m.blob_name
                         /\ ~HasBlob("customer_info", m.entry_id)
                  /\ l.pc \in { "put_remote", "put_local" } =>
                         /\ DeleteIssued(l)
                         /\ l.entry_id # l.blob_name
                         /\ SelectIds(gcs'["customer_info"], l.entry_id)
                                = gcs["customer_info"]
                         /\ { f \in disk' : f.id # l.entry_id } = disk ]_vars

\* C31 witness: the merged record was written under identifier 2 after the
\* blob 1 it was merged from had been deleted
C31_Witness ==
    LET l == proc[1] IN
    /\ l.op = "enter_customer_info" /\ l.pc = "done" /\ l.is_update
    /\ l.deleted /\ l.blob_name = 1 /\ l.entry_id = 2
    /\ ~HasBlob("customer_info", 1) /\ HasBlob("customer_info", 2)


(* ------------------------------------------------------------------ *)
(* Partial completion of delete-then-create                            *)
(* ------------------------------------------------------------------ *)

\* the request has logged a warning or an error with this message
Logged(l, message) ==
    \E r \in l.log : r.level \in { "WARNING", "ERROR" } /\ r.message = message

\* C32: when a customer write that found a match ends with the old blob
\* deleted and the merged record not in the remote store, the request has
\* logged the error of the exhausted uploads and the store holds neither
\* blob; when it ends with the delete failed and the merged record in the
\* remote store, the request has logged the delete warning and the store
\* holds both blobs. Nothing is repaired in either case.
C32_PartialReplaceIsLogged ==
    \A p \in Procs :
        LET l == proc[p] IN
        (l.op = "enter_customer_info" /\ l.pc = "done" /\ l.is_update) =>
            /\ (l.deleted /\ (l.ret = None \/ Scheme(l.ret) = "file://")) =>
                   /\ Logged(l, "All attempts to upload to GCS failed. Writing to local fallback.")
                   /\ l.ret = None =>
                          Logged(l, "Failed to write fallback file to disk")
                   /\ ~HasBlob("customer_info", l.blob_name)
                   /\ ~HasBlob("customer_info", l.entry_id)
            /\ (~l.deleted /\ l.ret # None /\ Scheme(l.ret) = "gs://") =>
                   /\ Logged(l, "Failed to delete old customer entry")
                   /\ HasBlob("customer_info", l.blob_name)
                   /\ HasBlob("customer_info", l.entry_id)

\* C32 witness: the old blob was deleted and both the uploads and the
\* fallback write of the merged record failed
C32_Witness ==
    LET l == proc[1] IN
    /\ l.op = "enter_customer_info" /\ l.pc = "done" /\ l.is_update
    /\ l.deleted /\ l.ret = None /\ gcs["customer_info"] = << >>

\* C32 witness of the other half: the delete failed and the merged record
\* was uploaded beside the old one
C32_WitnessDeleteFailed ==
    LET l == proc[1] IN
    /\ l.op = "enter_customer_info" /\ l.pc = "done" /\ l.is_update
    /\ ~l.deleted /\ l.ret # None /\ Scheme(l.ret) = "gs://"
    /\ Len(gcs["customer_info"]) = 2


(* ------------------------------------------------------------------ *)
(* Backoff of the remote write                                         *)
(* ------------------------------------------------------------------ *)

\* C33: after the k-th failed upload of a put (k = 1, 2, 3) the put has
\* slept 0.5, 1 and 2 seconds respectively (5, 10 and 20 tenths), which is
\* backoff_base * 2^(k-1); a put never makes a fourth attempt and the sum of
\* its sleeps is backoff_base * (2^k - 1), at most 3.5 seconds.
C33_BackoffDoubles ==
    \A p \in Procs :
        LET l == proc[p]
            k == l.attempt
        IN  /\ k \in 0 .. 3
            /\ k = 0 => l.slept = 0
            /\ k = 1 => l.sleep_time = 5 /\ l.slept = 5
            /\ k = 2 => l.sleep_time = 10 /\ l.slept = 15
            /\ k = 3 => l.sleep_time = 20 /\ l.slept = 35
            /\ k >= 1 => /\ l.sleep_time = backoff_base * Pow2(k - 1)
                         /\ l.slept = backoff_base * (Pow2(k) - 1)
                         /\ Warning("Attempt failed to upload to GCS", k) \in l.log
            /\ l.slept <= 35

\* C33 witness: a put whose three uploads failed has slept 3.5 seconds and
\* written the fallback file
C33_Witness ==
    LET l == proc[1] IN
    /\ l.pc = "done" /\ l.attempt = 3 /\ l.sleep_time = 20 /\ l.slept = 35
    /\ l.ret # None /\ Scheme(l.ret) = "file://"


(* ------------------------------------------------------------------ *)
(* One blob per email                                                  *)
(* ------------------------------------------------------------------ *)

\* the positions of two different stored customer blobs whose emails are
\* equal up to case and surrounding blanks
DuplicateEmails ==
    { ij \in (1..Len(gcs["customer_info"])) \X (1..Len(gcs["customer_info"])) :
        /\ ij[1] < ij[2]
        /\ SameEmail(gcs["customer_info"][ij[1]].data,
                     gcs["customer_info"][ij[2]].data) }

\* C34 as stated: in a run of customer writes made one after the other from
\* an empty store, with the remote store reachable, no two stored customer
\* blobs have emails that are equal after case-folding and trimming.
C34_NoDuplicateEmails == DuplicateEmails = {}


(* ------------------------------------------------------------------ *)
(* Customer writes while the storage handle is absent                  *)
(* ------------------------------------------------------------------ *)

\* the record enter_customer_info builds from its arguments
Incoming(args) == [ args EXCEPT !.category = _normalize_category(args.category) ]

\* C35: while the bucket handle is absent no step of a customer write
\* searches for, finds or deletes a stored record or touches the remote
\* store; the record it puts is the incoming one, not a merge; a write that
\* reports success reports is_update = false and has added exactly one new
\* fallback file, under a fresh identifier, leaving all other files as they
\* were, also when a file with the same email exists; a write whose fallback
\* file cannot be written reports an error and adds nothing.
C35_NoMatchWithoutBucket ==
    [][ ~bucket =>
          \A p \in Procs :
              CustomerStep(p) =>
                  LET l == proc[p]
                      m == proc'[p]
                  IN  /\ m.pc \notin { "find_list", "find_next", "delete", "put_remote" }
                      /\ ~m.is_update /\ m.blob_name = 0
                      /\ gcs' = gcs
                      /\ m.pc = "put_local" =>
                             /\ Fields(m.data) = Fields(Incoming(m.args))
                             /\ \A f \in disk : f.id # m.entry_id
                             /\ disk' = disk
                      /\ (l.pc = "put_local" /\ m.pc = "done") =>
                             IF m.result.status = "success"
                             THEN /\ m.result.is_update = FALSE
                                  /\ Scheme(m.ret) = "file://"
                                  /\ disk' = disk \cup
                                         { File("customer_info", l.entry_id, l.data) }
                                  /\ Cardinality(disk') = Cardinality(disk) + 1
                             ELSE m.ret = None /\ disk' = disk ]_vars

\* C35 witness: with the handle absent, two writes for one email (in two
\* spellings) have each reported a new record and left a fallback file
C35_Witness ==
    LET l == proc[1] IN
    /\ ~bucket /\ l.op = "enter_customer_info" /\ l.pc = "done"
    /\ l.result.status = "success" /\ ~l.result.is_update
    /\ Cardinality(disk) = 2
    /\ \A f \in disk : f.folder = "customer_info" /\ SameEmail(f.data, l.args)
    /\ \E f, g \in disk : f.data.email # g.data.email


(* ------------------------------------------------------------------ *)
(* update_all_customers_category beside a merging customer write       *)
(* ------------------------------------------------------------------ *)

\* number of write requests accepted in one run of SpecUpdateRace
MaxIdsUpdateRace == 2

\* handler 1 writes customers, handler 2 sets the category of all customers;
\* their steps interleave freely (no lock is taken), against a reachable
\* store that never fails
NextUpdateRace ==
    \/ next_id < MaxIdsUpdateRace
       /\ \E args \in RaceInputs : EnterCustomerInfo(1, args)
    \/ FindList(1, { TRUE })
    \/ FindNext(1, { TRUE })
    \/ DeleteOld(1, { TRUE })
    \/ PutRemote(1, { TRUE })
    \/ UpdateAllCustomersCategory(2, Str(sProspective))
    \/ UpdateList(2, { TRUE })
    \/ UpdateDownload(2, { TRUE })
    \/ UpdateUpload(2, { TRUE })

SpecUpdateRace == InitReachable /\ [][NextUpdateRace]_vars

\* the identifiers of the stored customer blobs
CustomerIds ==
    { gcs["customer_info"][i].id : i \in 1..Len(gcs["customer_info"]) }

\* C36 as stated: no step of update_all_customers_category makes a customer
\* blob exist that did not exist before the step; in particular a blob that
\* a concurrent merging customer write has deleted stays deleted.
C36_UpdateNeverBringsBackDeleted ==
    [][ \A p \in Procs :
          (proc[p].op = "update_all_customers_category" /\ proc'[p] # proc[p]) =>
              CustomerIds' \subseteq CustomerIds ]_vars


(* ------------------------------------------------------------------ *)
(* The email test of the write side and of the lookup                  *)
(* ------------------------------------------------------------------ *)

\* the email test of _find_existing_customer on one stored record
EmailMatches(customer_data, email) ==
    /\ Truthy(email) /\ Truthy(Get(customer_data, "email"))
    /\ Normalized(email) = Normalized(customer_data.email)

\* the whitespace before and after the text of a string
Around(s) ==
    << SubSeq(s, 1, Len(s) - Len(LStrip(s))),
       SubSeq(s, Len(RStrip(s)) + 1, Len(s)) >>

\* the record _find_existing_customer returned to handler p was matched by
\* the email of the write
FoundByEmail(p) == Found(p) /\ EmailMatches(FoundRecord(p), proc[p].args.email)

\* C37 as stated: a stored customer that _find_existing_customer matches for
\* the email e passes the test of get_customer for e, and get_customer(e)
\* returns a customer.
C37_FoundIsLookedUp ==
    \A p \in Procs :
        FoundByEmail(p) =>
            /\ EmailIs(FoundRecord(p), proc[p].args.email)
            /\ "customer" \in DOMAIN get_customer(get_storage(TRUE), proc[p].args.email)

\* C37: a stored customer that _find_existing_customer matches for the email
\* e passes the test of get_customer for e exactly when the whitespace around
\* the stored email is the whitespace around e, and get_customer(e) then
\* returns the first listed customer that _find_existing_customer's email
\* test accepts for e with that whitespace; conversely every stored customer
\* that passes the test of get_customer for e is matched by the email test of
\* _find_existing_customer for e.
C37_LookupsAgreeUpToBlanks ==
    \A p \in Procs :
        LET e == proc[p].args.email
            customers == Contents("customer_info")
        IN  /\ FoundByEmail(p) =>
                   LET c == FoundRecord(p)
                       got == get_customer(get_storage(TRUE), e)
                   IN  /\ EmailIs(c, e) <=> Around(c.email.v) = Around(e.v)
                       /\ EmailIs(c, e) =>
                              /\ "customer" \in DOMAIN got
                              /\ EmailMatches(got.customer, e)
                              /\ Around(got.customer.email.v) = Around(e.v)
            /\ (proc[p].op = "enter_customer_info" /\ ~IsNone(e)) =>
                   \A i \in 1..Len(customers) :
                       EmailIs(customers[i], e) => EmailMatches(customers[i], e)

\* C37 witness: the write and the stored record both have the email "A@X "
\* with its trailing blank, and both lookups find the record
C37_Witness ==
    /\ FoundByEmail(1)
    /\ proc[1].args.email = eUpper /\ FoundRecord(1).email = eUpper
    /\ get_customer(get_storage(TRUE), eUpper).customer = FoundRecord(1)

\* the case where the two differ: the stored email is "a@x", the write has
\* "A@X ", and get_customer("A@X ") finds nothing
C37_WitnessDiffer ==
    /\ FoundByEmail(1)
    /\ proc[1].args.email = eUpper /\ FoundRecord(1).email = eLower
    /\ "raised" \in DOMAIN get_customer(get_storage(TRUE), eUpper)


(* ------------------------------------------------------------------ *)
(* Where a put leaves its payload                                      *)
(* ------------------------------------------------------------------ *)

\* the places that hold something under the identifier of request l
Places(l) ==
    (IF HasBlob(l.folder, l.entry_id) THEN { "remote" } ELSE {})
        \cup (IF \E f \in disk : f.folder = l.folder /\ f.id = l.entry_id
              THEN { "local" } ELSE {})

\* C38: a finished put that returned a gs:// location has stored its payload
\* as a remote blob and left no local file for that identifier; one that
\* returned a file:// location has written the local file and left no remote
\* blob for that identifier; one that returned nothing has stored nothing.
\* A put not yet finished has stored nothing.
C38_OnePlace ==
    \A p \in Procs :
        LET l == proc[p] IN
        Accepted(l) =>
            IF l.pc # "done" THEN Places(l) = {}
            ELSE IF l.ret = None THEN Places(l) = {}
            ELSE /\ Scheme(l.ret) = "gs://" =>
                        Places(l) = { "remote" } /\ l.local_writes = 0
                 /\ Scheme(l.ret) = "file://" =>
                        /\ Places(l) = { "local" }
                        /\ File(l.folder, l.entry_id, l.data) \in disk
                 /\ Cardinality(Places(l)) = 1

\* C38 witness: a put whose first upload failed and whose second succeeded
\* has its payload in the remote store only
C38_Witness ==
    LET l == proc[1] IN
    /\ Accepted(l) /\ l.pc = "done" /\ l.attempt = 1
    /\ Scheme(l.ret) = "gs://" /\ Places(l) = { "remote" }


(* ------------------------------------------------------------------ *)
(* Termination of a put                                                *)
(* ------------------------------------------------------------------ *)

\* number of write requests accepted in one run of SpecPut
MaxIdsPut == 2

\* financial writes, whose handler goes straight to the put, with the handle
\* present or absent and every upload and fallback write free to fail
NextPut ==
    \/ next_id < MaxIdsPut
       /\ \E args \in FinancialInputs : EnterFinancialData(1, args)
    \/ PutRemote(1, BOOLEAN)
    \/ PutLocal(1, BOOLEAN)

\* a put is straight-line code inside one request: once begun, its next
\* upload attempt or fallback write is eventually made; whether that call
\* succeeds or fails is left open
SpecPut ==
    /\ Init /\ [][NextPut]_vars
    /\ WF_vars(PutRemote(1, BOOLEAN))
    /\ WF_vars(PutLocal(1, BOOLEAN))

\* C39: every put that has begun, whether at an upload attempt or at the
\* fallback write, comes to its return, whichever of its uploads and
\* fallback writes fail.
C39_PutTerminates ==
    \A p \in Procs :
        (proc[p].pc \in { "put_remote", "put_local" }) ~> (proc[p].pc = "done")

\* C39 witness: a put has returned after three failed uploads and a failed
\* fallback write
C39_Witness ==
    LET l == proc[1] IN
    /\ l.op = "enter_financial_data" /\ l.pc = "done"
    /\ l.uploads = 3 /\ l.local_writes = 1 /\ l.ret = None

====
